---- MODULE Spec2Model ----
(***************************************************************************)
(* Model of the packet assembly and export pipeline of netflow_generator:  *)
(* exporter grouping, the per-exporter sequence store, the v5/v7/v9/IPFIX  *)
(* builders, the template-refresh clock, the startup checks, the sinks and *)
(* the periodic main loop.                                                 *)
(*                                                                         *)
(* Spec is the program: in it a packet is the record of the header values  *)
(* the builder writes into it together with its origin (index of the flow  *)
(* entry and of the flowset that produced it).  WireSpec applies the       *)
(* builders, the value encoder and the capture framer one call at a time   *)
(* and keeps the bytes they return; it also processes single exporter      *)
(* groups at given readings of the wall clock and at sequences up to the   *)
(* largest u32.  LiveSpec is the program started on the configurations of  *)
(* the startup checks, with every step of the loop taken eventually.       *)
(* OnceSpec is the program run with --once on a configuration file.        *)
(***************************************************************************)
EXTENDS Integers, Sequences, FiniteSets, TLC

(* ---------------------------------------------------------------------- *)
(* Bounds of the model                                                     *)
(* ---------------------------------------------------------------------- *)
MaxTicks == 3
MaxTime == 32
MaxRecords == 2
MaxLag == 1
\* largest value of a sequence counter: stands for u32::MAX, which is beyond
\* the integers of the model checker
SeqMax == 1000

(* ---------------------------------------------------------------------- *)
(* Program constants                                                       *)
(* ---------------------------------------------------------------------- *)
TEMPLATE_REFRESH_INTERVAL == 30

(* ---------------------------------------------------------------------- *)
(* Option<T>                                                               *)
(* ---------------------------------------------------------------------- *)
NoneOpt == [some |-> FALSE, val |-> 0]
SomeOpt(v) == [some |-> TRUE, val |-> v]
unwrap_or(o, d) == IF o.some THEN o.val ELSE d

(* ---------------------------------------------------------------------- *)
(* Sequence helpers                                                        *)
(* ---------------------------------------------------------------------- *)
RECURSIVE Concat(_)
Concat(ss) == IF ss = <<>> THEN <<>> ELSE Head(ss) \o Concat(Tail(ss))

\* indices of the sequence keep, ascending, at which keep is TRUE
Indices(keep) ==
    LET RECURSIVE Go(_)
        Go(i) == IF i > Len(keep) THEN <<>>
                 ELSE IF keep[i] THEN <<i>> \o Go(i + 1) ELSE Go(i + 1)
    IN Go(1)

Perms(S) == {p \in [1..Cardinality(S) -> S] : \A x \in S : \E i \in DOMAIN p : p[i] = x}


(* ---------------------------------------------------------------------- *)
(* Field registries (name -> numeric id); 0 stands for "not registered"    *)
(* ---------------------------------------------------------------------- *)
V9FieldTable ==
    [IN_BYTES |-> 1, IN_PKTS |-> 2, FLOWS |-> 3, PROTOCOL |-> 4, SRC_TOS |-> 5,
     TCP_FLAGS |-> 6, L4_SRC_PORT |-> 7, IPV4_SRC_ADDR |-> 8, SRC_MASK |-> 9,
     INPUT_SNMP |-> 10, L4_DST_PORT |-> 11, IPV4_DST_ADDR |-> 12, DST_MASK |-> 13,
     OUTPUT_SNMP |-> 14, IPV4_NEXT_HOP |-> 15, SRC_AS |-> 16, DST_AS |-> 17,
     BGP_IPV4_NEXT_HOP |-> 18, MUL_DST_PKTS |-> 19, MUL_DST_BYTES |-> 20,
     LAST_SWITCHED |-> 21, FIRST_SWITCHED |-> 22, OUT_BYTES |-> 23, OUT_PKTS |-> 24]

IPFixFieldTable ==
    [octetDeltaCount |-> 1, packetDeltaCount |-> 2, deltaFlowCount |-> 3,
     protocolIdentifier |-> 4, ipClassOfService |-> 5, tcpControlBits |-> 6,
     sourceTransportPort |-> 7, sourceIPv4Address |-> 8,
     sourceIPv4PrefixLength |-> 9, ingressInterface |-> 10,
     destinationTransportPort |-> 11, destinationIPv4Address |-> 12,
     destinationIPv4PrefixLength |-> 13, egressInterface |-> 14,
     ipNextHopIPv4Address |-> 15, bgpSourceAsNumber |-> 16,
     bgpDestinationAsNumber |-> 17, bgpNextHopIPv4Address |-> 18,
     flowEndSysUpTime |-> 21, flowStartSysUpTime |-> 22]

\* v9.rs field_name_to_id: Some(id) for a registered name, None otherwise
v9_field_name_to_id(name) ==
    IF name \in DOMAIN V9FieldTable THEN SomeOpt(V9FieldTable[name]) ELSE NoneOpt

\* ipfix.rs field_name_to_id
ipfix_field_name_to_id(name) ==
    IF name \in DOMAIN IPFixFieldTable THEN SomeOpt(IPFixFieldTable[name]) ELSE NoneOpt

(* ---------------------------------------------------------------------- *)
(* Results of the builders: Ok((packets, next_sequence)) or Err(kind)      *)
(* ---------------------------------------------------------------------- *)
Ok(pkts, seq) == [ok |-> TRUE, packets |-> pkts, next_seq |-> seq, err |-> "none"]
Err(kind) == [ok |-> FALSE, packets |-> <<>>, next_seq |-> 0, err |-> kind]

\* u32::checked_add
checked_add(a, b) == IF a + b > SeqMax THEN NoneOpt ELSE SomeOpt(a + b)

\* the header values a builder writes into a message, with the origin of the
\* message (entry: index of the flow entry, fs: index of the data flowset)
Packet(ver, kind, count, seq, id, tids, nrec, fs) ==
    [version |-> ver, kind |-> kind, count |-> count, sequence_number |-> seq,
     id |-> id, template_ids |-> tids, nrec |-> nrec, entry |-> 0, fs |-> fs]

(* ---------------------------------------------------------------------- *)
(* v9 builder                                                              *)
(* ---------------------------------------------------------------------- *)
IsTemplate(fs) == fs.type = "template"
IsData(fs) == fs.type = "data"

\* header values in which the sequence_number of the header comes first
v9_get_header_values_header_first(config, override_sequence_number) ==
    [sequence_number |->
        IF config.header.some /\ config.header.val.sequence_number.some
        THEN config.header.val.sequence_number.val
        ELSE IF override_sequence_number.some THEN override_sequence_number.val
        ELSE 0,
     source_id |->
        IF config.header.some THEN unwrap_or(config.header.val.source_id, 1) ELSE 1]

\* v9.rs get_header_values: (sequence_number, source_id)
v9_get_header_values(config, override_sequence_number) ==
    [sequence_number |->
        IF override_sequence_number.some THEN override_sequence_number.val
        ELSE IF config.header.some THEN unwrap_or(config.header.val.sequence_number, 0)
        ELSE 0,
     source_id |->
        IF config.header.some THEN unwrap_or(config.header.val.source_id, 1) ELSE 1]

\* v9.rs build_template_packet: fails on the first unregistered field name
v9_build_template_packet(sequence_number, source_id, templates) ==
    IF \E i \in DOMAIN templates : \E j \in DOMAIN templates[i].fields :
          ~v9_field_name_to_id(templates[i].fields[j].field_type).some
    THEN Err("unknown_field")
    ELSE Ok(<<Packet(9, "template", Len(templates), sequence_number, source_id,
                     [i \in DOMAIN templates |-> templates[i].template_id], 0, 0)>>,
            sequence_number)

\* a data packet builder that looks every field up before the records
v9_build_data_packet_eager(sequence_number, source_id, template_id, template_fields, records, fs) ==
    IF \E j \in DOMAIN template_fields :
          ~v9_field_name_to_id(template_fields[j].field_type).some
    THEN Err("unknown_field")
    ELSE Ok(<<Packet(9, "data", 1, sequence_number, source_id, <<template_id>>,
                     Len(records), fs)>>, sequence_number)

\* v9.rs build_data_packet: the registry is consulted once per record and field
v9_build_data_packet(sequence_number, source_id, template_id, template_fields, records, fs) ==
    IF records # <<>> /\ \E j \in DOMAIN template_fields :
          ~v9_field_name_to_id(template_fields[j].field_type).some
    THEN Err("unknown_field")
    ELSE Ok(<<Packet(9, "data", 1, sequence_number, source_id, <<template_id>>,
                     Len(records), fs)>>, sequence_number)

\* a lookup that falls back on the first template of the entry
FindTemplateLenient(templates, template_id) ==
    LET hits == Indices([i \in DOMAIN templates |-> templates[i].template_id = template_id])
    IN IF hits # <<>> THEN SomeOpt(hits[1])
       ELSE IF templates # <<>> THEN SomeOpt(1) ELSE NoneOpt

\* first template of the entry with the given id (Vec::iter().find())
FindTemplate(templates, template_id) ==
    LET hits == Indices([i \in DOMAIN templates |-> templates[i].template_id = template_id])
    IN IF hits = <<>> THEN NoneOpt ELSE SomeOpt(hits[1])

\* a template packet that consumes one sequence number
v9_sequence_after_templates_counted(sequence_number) == sequence_number + 1

\* the sequence after the template packet was pushed: not incremented
v9_sequence_after_templates(sequence_number) == sequence_number

\* a sequence that counts data packets
v9_next_sequence_per_packet(sequence_number, records) == checked_add(sequence_number, 1)

\* the sequence after a data packet: advanced by the number of its records
v9_next_sequence(sequence_number, records) == checked_add(sequence_number, Len(records))

\* a build that returns an empty output as it is
v9_packets_or_error_lenient(packets, sequence_number) == Ok(packets, sequence_number)

\* the end of build_v9_packets: an output without packets is an error
v9_packets_or_error(packets, sequence_number) ==
    IF packets = <<>> THEN Err("empty") ELSE Ok(packets, sequence_number)

build_v9_packets(config, override_sequence_number, send_templates) ==
    LET hv == v9_get_header_values(config, override_sequence_number)
        tidx == Indices([i \in DOMAIN config.flowsets |-> IsTemplate(config.flowsets[i])])
        didx == Indices([i \in DOMAIN config.flowsets |-> IsData(config.flowsets[i])])
        templates == [i \in DOMAIN tidx |-> config.flowsets[tidx[i]]]
        tres == IF templates # <<>> /\ send_templates
                THEN v9_build_template_packet(hv.sequence_number, hv.source_id, templates)
                ELSE Ok(<<>>, hv.sequence_number)
        RECURSIVE DataLoop(_, _, _)
        DataLoop(k, sequence_number, packets) ==
            IF k > Len(didx)
            THEN v9_packets_or_error(packets, sequence_number)
            ELSE LET ds == config.flowsets[didx[k]]
                     found == FindTemplate(templates, ds.template_id)
                 IN IF ~found.some THEN Err("undefined_template")
                    ELSE LET dres == v9_build_data_packet(sequence_number, hv.source_id,
                                         ds.template_id, templates[found.val].fields,
                                         ds.records, didx[k])
                             next == v9_next_sequence(sequence_number, ds.records)
                         IN IF ~dres.ok THEN dres
                            ELSE IF ~next.some THEN Err("overflow")
                            ELSE DataLoop(k + 1, next.val, packets \o dres.packets)
        seq0 == IF templates # <<>> /\ send_templates
                THEN v9_sequence_after_templates(hv.sequence_number)
                ELSE hv.sequence_number
    IN IF ~tres.ok THEN tres ELSE DataLoop(1, seq0, tres.packets)


(* ---------------------------------------------------------------------- *)
(* IPFIX builder (generator/ipfix.rs).  The function takes the entry only: *)
(* it has no parameter for a starting sequence or for the template switch, *)
(* so the values main.rs passes at the call cannot reach it.  The sequence *)
(* it hands back is the value of its local counter when it returns.        *)
(* ---------------------------------------------------------------------- *)
\* u32 `+= 1`
u32_incr(a) == (a + 1) % (SeqMax + 1)

\* ipfix.rs get_header_values: (sequence_number, observation_domain_id)
ipfix_get_header_values(config) ==
    [sequence_number |->
        IF config.header.some THEN unwrap_or(config.header.val.sequence_number, 0) ELSE 0,
     observation_domain_id |->
        IF config.header.some THEN unwrap_or(config.header.val.observation_domain_id, 1)
        ELSE 1]

ipfix_build_template_packet(sequence_number, observation_domain_id, templates) ==
    IF \E i \in DOMAIN templates : \E j \in DOMAIN templates[i].fields :
          ~ipfix_field_name_to_id(templates[i].fields[j].field_type).some
    THEN Err("unknown_field")
    ELSE Ok(<<Packet(10, "template", 0, sequence_number, observation_domain_id,
                     [i \in DOMAIN templates |-> templates[i].template_id], 0, 0)>>,
            sequence_number)

ipfix_build_data_packet(sequence_number, observation_domain_id, template_id, template_fields, records, fs) ==
    IF records # <<>> /\ \E j \in DOMAIN template_fields :
          ~ipfix_field_name_to_id(template_fields[j].field_type).some
    THEN Err("unknown_field")
    ELSE Ok(<<Packet(10, "data", 0, sequence_number, observation_domain_id,
                     <<template_id>>, Len(records), fs)>>, sequence_number)

build_ipfix_packets(config) ==
    LET hv == ipfix_get_header_values(config)
        tidx == Indices([i \in DOMAIN config.flowsets |-> IsTemplate(config.flowsets[i])])
        didx == Indices([i \in DOMAIN config.flowsets |-> IsData(config.flowsets[i])])
        templates == [i \in DOMAIN tidx |-> config.flowsets[tidx[i]]]
        tres == IF templates # <<>>
                THEN ipfix_build_template_packet(hv.sequence_number,
                                                 hv.observation_domain_id, templates)
                ELSE Ok(<<>>, hv.sequence_number)
        seq0 == IF templates # <<>> THEN u32_incr(hv.sequence_number)
                ELSE hv.sequence_number
        RECURSIVE DataLoop(_, _, _)
        DataLoop(k, sequence_number, packets) ==
            IF k > Len(didx)
            THEN IF packets = <<>> THEN Err("empty") ELSE Ok(packets, sequence_number)
            ELSE LET ds == config.flowsets[didx[k]]
                     found == FindTemplate(templates, ds.template_id)
                 IN IF ~found.some THEN Err("undefined_template")
                    ELSE LET dres == ipfix_build_data_packet(sequence_number,
                                         hv.observation_domain_id, ds.template_id,
                                         templates[found.val].fields, ds.records, didx[k])
                         IN IF ~dres.ok THEN dres
                            ELSE DataLoop(k + 1, u32_incr(sequence_number),
                                          packets \o dres.packets)
    IN IF ~tres.ok THEN tres ELSE DataLoop(1, seq0, tres.packets)

\* the number of times build_ipfix_packets executes `sequence_number += 1`
\* before it returns: once after the template message and once after every
\* data message built before the first failure
ipfix_increments(config) ==
    LET hv == ipfix_get_header_values(config)
        tidx == Indices([i \in DOMAIN config.flowsets |-> IsTemplate(config.flowsets[i])])
        didx == Indices([i \in DOMAIN config.flowsets |-> IsData(config.flowsets[i])])
        templates == [i \in DOMAIN tidx |-> config.flowsets[tidx[i]]]
        built(k) ==
            LET ds == config.flowsets[didx[k]]
                found == FindTemplate(templates, ds.template_id)
            IN found.some /\ ipfix_build_data_packet(0, hv.observation_domain_id,
                                 ds.template_id, templates[found.val].fields,
                                 ds.records, didx[k]).ok
        RECURSIVE Count(_)
        Count(k) == IF k > Len(didx) \/ ~built(k) THEN 0 ELSE 1 + Count(k + 1)
    IN IF templates = <<>> THEN Count(1)
       ELSE IF ipfix_build_template_packet(0, hv.observation_domain_id, templates).ok
            THEN 1 + Count(1)
            ELSE 0

\* `+= 1` is not a checked addition: beyond the largest u32 it wraps (u32_incr)
\* in a build without overflow checks and panics in a build with them
ipfix_overflows(config) ==
    ipfix_get_header_values(config).sequence_number + ipfix_increments(config) > SeqMax

(* ---------------------------------------------------------------------- *)
(* v5 and v7 builders (fixed record layout): one packet per entry          *)
(* ---------------------------------------------------------------------- *)
U16_MAX == 65535

\* v5.rs build_header: the flow_sequence is the header override, else 0
v5_build_header(config) ==
    IF Len(config.flowsets) > U16_MAX THEN Err("too_many_flowsets")
    ELSE Ok(<<Packet(5, "flows", Len(config.flowsets),
                     IF config.header.some
                     THEN unwrap_or(config.header.val.flow_sequence, 0) ELSE 0,
                     0, <<>>, Len(config.flowsets), 0)>>, 0)

build_v5_packet(config) ==
    IF config.flowsets = <<>> THEN Err("empty") ELSE v5_build_header(config)

\* v7.rs build_header
v7_build_header(config) ==
    IF Len(config.flowsets) > U16_MAX THEN Err("too_many_flowsets")
    ELSE Ok(<<Packet(7, "flows", Len(config.flowsets),
                     IF config.header.some
                     THEN unwrap_or(config.header.val.flow_sequence, 0) ELSE 0,
                     0, <<>>, Len(config.flowsets), 0)>>, 0)

build_v7_packet(config) ==
    IF config.flowsets = <<>> THEN Err("empty") ELSE v7_build_header(config)

(* ---------------------------------------------------------------------- *)
(* Exporter grouping (main.rs)                                             *)
(* ---------------------------------------------------------------------- *)
ExporterId(kind, a, b) == [kind |-> kind, a |-> a, b |-> b]

\* an identity under which all v7 entries fall into one group
extract_exporter_id_shared_v7(flow, index) ==
    CASE flow.version = "v5" ->
            ExporterId("V5",
                IF flow.header.some THEN unwrap_or(flow.header.val.engine_type, 0) ELSE 0,
                IF flow.header.some THEN unwrap_or(flow.header.val.engine_id, 0) ELSE 0)
      [] flow.version = "v7" -> ExporterId("V7", 0, 0)
      [] flow.version = "v9" ->
            ExporterId("V9",
                IF flow.header.some THEN unwrap_or(flow.header.val.source_id, 1) ELSE 1, 0)
      [] flow.version = "ipfix" ->
            ExporterId("IPFix",
                IF flow.header.some
                THEN unwrap_or(flow.header.val.observation_domain_id, 1) ELSE 1, 0)

\* index is the 0-based position of the entry in config.flows
extract_exporter_id(flow, index) ==
    CASE flow.version = "v5" ->
            ExporterId("V5",
                IF flow.header.some THEN unwrap_or(flow.header.val.engine_type, 0) ELSE 0,
                IF flow.header.some THEN unwrap_or(flow.header.val.engine_id, 0) ELSE 0)
      [] flow.version = "v7" -> ExporterId("V7", index, 0)
      [] flow.version = "v9" ->
            ExporterId("V9",
                IF flow.header.some THEN unwrap_or(flow.header.val.source_id, 1) ELSE 1, 0)
      [] flow.version = "ipfix" ->
            ExporterId("IPFix",
                IF flow.header.some
                THEN unwrap_or(flow.header.val.observation_domain_id, 1) ELSE 1, 0)

\* a grouping that keeps the first entry of every identity only
group_flows_by_exporter_first(flows) ==
    LET ids == {extract_exporter_id(flows[i], i - 1) : i \in DOMAIN flows}
    IN [id \in ids |->
          LET idx == Indices([i \in DOMAIN flows |-> extract_exporter_id(flows[i], i - 1) = id])
          IN <<[index |-> idx[1], flow |-> flows[idx[1]]]>>]

\* a grouping whose buckets hold the entries in reverse input order
group_flows_by_exporter_reversed(flows) ==
    LET ids == {extract_exporter_id(flows[i], i - 1) : i \in DOMAIN flows}
    IN [id \in ids |->
          LET idx == Indices([i \in DOMAIN flows |-> extract_exporter_id(flows[i], i - 1) = id])
          IN [k \in DOMAIN idx |->
                [index |-> idx[Len(idx) + 1 - k], flow |-> flows[idx[Len(idx) + 1 - k]]]]]

\* HashMap<ExporterId, Vec<FlowConfig>>: every bucket keeps the entries in
\* input order; index is carried along to name the entry a packet comes from
group_flows_by_exporter(flows) ==
    LET ids == {extract_exporter_id(flows[i], i - 1) : i \in DOMAIN flows}
    IN [id \in ids |->
          LET idx == Indices([i \in DOMAIN flows |-> extract_exporter_id(flows[i], i - 1) = id])
          IN [k \in DOMAIN idx |-> [index |-> idx[k], flow |-> flows[idx[k]]]]]

\* names the entry a batch of packets was built from
FromEntry(batch, index) == [k \in DOMAIN batch |-> [batch[k] EXCEPT !.entry = index]]

process_exporter_group(flows, initial_sequence, send_templates) ==
    LET RECURSIVE Loop(_, _, _)
        Loop(k, current_seq, packets) ==
            IF k > Len(flows) THEN Ok(packets, current_seq)
            ELSE LET flow == flows[k].flow
                     index == flows[k].index
                 IN CASE flow.version = "v5" ->
                         LET r == build_v5_packet(flow)
                             next == checked_add(current_seq, Len(flow.flowsets))
                         IN IF ~r.ok THEN r
                            ELSE IF Len(flow.flowsets) > SeqMax THEN Err("too_many_flowsets")
                            ELSE IF ~next.some THEN Err("overflow")
                            ELSE Loop(k + 1, next.val,
                                      packets \o FromEntry(r.packets, index))
                      [] flow.version = "v7" ->
                         LET r == build_v7_packet(flow)
                         IN IF ~r.ok THEN r
                            ELSE Loop(k + 1, current_seq,
                                      packets \o FromEntry(r.packets, index))
                      [] flow.version = "v9" ->
                         LET r == build_v9_packets(flow, SomeOpt(current_seq), send_templates)
                         IN IF ~r.ok THEN r
                            ELSE Loop(k + 1, r.next_seq,
                                      packets \o FromEntry(r.packets, index))
                      [] flow.version = "ipfix" ->
                         LET r == build_ipfix_packets(flow)
                         IN IF ~r.ok THEN r
                            ELSE Loop(k + 1, r.next_seq,
                                      packets \o FromEntry(r.packets, index))
    IN Loop(1, initial_sequence, <<>>)


(* ---------------------------------------------------------------------- *)
(* Wire images: byte vectors (Vec<u8>), as sequences of 0..255            *)
(* ---------------------------------------------------------------------- *)
\* uN::to_be_bytes after an `as uN` cast: the n low-order bytes of v, most
\* significant first
RECURSIVE to_be_bytes(_, _)
to_be_bytes(v, n) == IF n = 0 THEN <<>> ELSE Append(to_be_bytes(v \div 256, n - 1), v % 256)

\* u16::from_be_bytes
from_be_bytes(hi, lo) == hi * 256 + lo

\* vec![0; n]
Zeros(n) == [i \in 1..n |-> 0]

\* packet[pos..pos + 2].copy_from_slice(&v.to_be_bytes()), pos counted from 0
copy_u16_at(packet, pos, v) ==
    [i \in DOMAIN packet |->
        IF i = pos + 1 THEN (v \div 256) % 256 ELSE IF i = pos + 2 THEN v % 256 ELSE packet[i]]

\* the bytes of packet at offsets from..to-1 (packet[from..to])
Slice(packet, from, to) == [i \in 1..(to - from) |-> packet[from + i]]

\* the u16 stored big-endian at offset pos
u16_at(packet, pos) == from_be_bytes(packet[pos + 1], packet[pos + 2])

\* results of the byte-level builders: Ok(bytes) or Err(kind)
OkBytes(b) == [ok |-> TRUE, bytes |-> b, err |-> "none"]
ErrBytes(kind) == [ok |-> FALSE, bytes |-> <<>>, err |-> kind]

(* ---------------------------------------------------------------------- *)
(* serde_yaml::Value, as far as the encoder distinguishes values           *)
(* ---------------------------------------------------------------------- *)
\* a string is kept as its dot-separated labels: a label that is a decimal
\* number is that number, any other label is -1
Str(labels) == [tag |-> "String", labels |-> labels, repr |-> "none", num |-> 0]
\* Number: PosInt (as_u64 is Some), NegInt or Float (as_u64 is None)
PosInt(v) == [tag |-> "Number", labels |-> <<>>, repr |-> "PosInt", num |-> v]
NegInt(v) == [tag |-> "Number", labels |-> <<>>, repr |-> "NegInt", num |-> v]
Float == [tag |-> "Number", labels |-> <<>>, repr |-> "Float", num |-> 0]
Null == [tag |-> "Null", labels |-> <<>>, repr |-> "none", num |-> 0]
Bool == [tag |-> "Bool", labels |-> <<>>, repr |-> "none", num |-> 0]

\* str::parse::<Ipv4Addr>: four labels, each a decimal number of one octet
parse_Ipv4Addr(labels) ==
    IF Len(labels) = 4 /\ \A i \in 1..4 : labels[i] >= 0 /\ labels[i] <= 255
    THEN SomeOpt(labels) ELSE NoneOpt

\* Number::as_u64
as_u64(value) == IF value.repr = "PosInt" THEN SomeOpt(value.num) ELSE NoneOpt

\* field_serializer.rs serialize_field_value
serialize_field_value(value, field_length) ==
    CASE value.tag = "String" ->
            IF parse_Ipv4Addr(value.labels).some
            THEN parse_Ipv4Addr(value.labels).val
            ELSE Zeros(field_length)
      [] value.tag = "Number" ->
            IF as_u64(value).some
            THEN CASE field_length = 1 -> to_be_bytes(as_u64(value).val, 1)
                   [] field_length = 2 -> to_be_bytes(as_u64(value).val, 2)
                   [] field_length = 4 -> to_be_bytes(as_u64(value).val, 4)
                   [] field_length = 8 -> to_be_bytes(as_u64(value).val, 8)
                   [] OTHER -> Zeros(field_length)
            ELSE Zeros(field_length)
      [] OTHER -> Zeros(field_length)

\* a record of a data flowset: a YAML mapping from key names to values, or a
\* value that is no mapping
Mapping(map) == [tag |-> "Mapping", map |-> map]
NoMapping == [tag |-> "Null", map |-> [k \in {} |-> Null]]

\* field_serializer.rs get_field_value
get_field_value(record, field_name) ==
    IF record.tag = "Mapping" /\ field_name \in DOMAIN record.map
    THEN SomeOpt(record.map[field_name]) ELSE [some |-> FALSE, val |-> Null]

\* field_serializer.rs v9_field_id_to_name
V9KeyNames ==
    <<"in_bytes", "in_pkts", "flows", "protocol", "src_tos", "tcp_flags", "src_port",
      "src_addr", "src_mask", "input_snmp", "dst_port", "dst_addr", "dst_mask",
      "output_snmp", "next_hop", "src_as", "dst_as", "bgp_next_hop", "mul_dst_pkts",
      "mul_dst_bytes", "last_switched", "first_switched", "out_bytes", "out_pkts">>
v9_field_id_to_name(field_type) ==
    IF field_type \in DOMAIN V9KeyNames THEN V9KeyNames[field_type] ELSE "unknown"

\* field_serializer.rs ipfix_field_id_to_name (19 and 20 are not registered)
IPFixKeyNames ==
    <<"octet_delta_count", "packet_delta_count", "delta_flow_count",
      "protocol_identifier", "ip_class_of_service", "tcp_control_bits",
      "source_transport_port", "source_ipv4_address", "source_ipv4_prefix_length",
      "ingress_interface", "destination_transport_port", "destination_ipv4_address",
      "destination_ipv4_prefix_length", "egress_interface", "ip_next_hop_ipv4_address",
      "bgp_source_as_number", "bgp_destination_as_number", "bgp_next_hop_ipv4_address",
      "unknown", "unknown", "flow_end_sys_up_time", "flow_start_sys_up_time">>
ipfix_field_id_to_name(field_type) ==
    IF field_type \in DOMAIN IPFixKeyNames THEN IPFixKeyNames[field_type] ELSE "unknown"

(* ---------------------------------------------------------------------- *)
(* v9 and IPFIX messages, byte by byte                                     *)
(* ---------------------------------------------------------------------- *)
\* padding that aligns the bytes after the length field instead of the flowset
RECURSIVE pad_flowset_after_length(_, _)
pad_flowset_after_length(packet, length_pos) ==
    IF (Len(packet) - length_pos) % 4 # 0
    THEN pad_flowset_after_length(Append(packet, 0), length_pos) ELSE packet

\* the padding loop: zero bytes are pushed until the flowset, counted from its
\* id field (two bytes before length_pos), is a multiple of 4 bytes long
RECURSIVE pad_flowset(_, _)
pad_flowset(packet, length_pos) ==
    IF (Len(packet) - length_pos + 2) % 4 # 0
    THEN pad_flowset(Append(packet, 0), length_pos) ELSE packet

\* the flowset length that is back-patched: from the id field to the end of the
\* packet built so far; None when it does not fit u16
flowset_length(packet, length_pos) ==
    IF Len(packet) - length_pos + 2 > U16_MAX THEN NoneOpt
    ELSE SomeOpt(Len(packet) - length_pos + 2)

\* a total length that leaves out the message header
ipfix_total_length_without_header(packet) ==
    IF Len(packet) > U16_MAX THEN NoneOpt ELSE SomeOpt(Len(packet) - 16)

\* the IPFIX total length that is back-patched; None when it does not fit u16
ipfix_total_length(packet) ==
    IF Len(packet) > U16_MAX THEN NoneOpt ELSE SomeOpt(Len(packet))

\* the 20 bytes of a v9 header
v9_header_bytes(count, sys_up_time, unix_secs, sequence_number, source_id) ==
    to_be_bytes(9, 2) \o to_be_bytes(count, 2) \o to_be_bytes(sys_up_time, 4)
    \o to_be_bytes(unix_secs, 4) \o to_be_bytes(sequence_number, 4)
    \o to_be_bytes(source_id, 4)

\* the 16 bytes of an IPFIX header, the total length still 0
ipfix_header_bytes(export_time, sequence_number, observation_domain_id) ==
    to_be_bytes(10, 2) \o to_be_bytes(0, 2) \o to_be_bytes(export_time, 4)
    \o to_be_bytes(sequence_number, 4) \o to_be_bytes(observation_domain_id, 4)

\* field_name_to_id of the builder of the given version (9 or 10)
field_name_to_id(version, name) ==
    IF version = 9 THEN v9_field_name_to_id(name) ELSE ipfix_field_name_to_id(name)

\* the key under which a record holds the value of a field
field_id_to_name(version, field_type) ==
    IF version = 9 THEN v9_field_id_to_name(field_type)
    ELSE ipfix_field_id_to_name(field_type)

\* the (type, length) pairs of a template; None at an unregistered field name
RECURSIVE template_fields_bytes(_, _)
template_fields_bytes(fields, version) ==
    IF fields = <<>> THEN SomeOpt(<<>>)
    ELSE LET id == field_name_to_id(version, Head(fields).field_type)
             rest == template_fields_bytes(Tail(fields), version)
         IN IF ~id.some \/ ~rest.some THEN [some |-> FALSE, val |-> <<>>]
            ELSE SomeOpt(to_be_bytes(id.val, 2)
                         \o to_be_bytes(Head(fields).field_length, 2) \o rest.val)

\* the loop over the templates of a template message: each template is
\* appended to packet as one flowset (set_id 0 for v9, 2 for IPFIX) and its
\* length is back-patched
RECURSIVE template_flowsets_bytes(_, _, _)
template_flowsets_bytes(packet, templates, version) ==
    IF templates = <<>> THEN OkBytes(packet)
    ELSE LET t == Head(templates)
             length_pos == Len(packet) + 2
             fields == template_fields_bytes(t.fields, version)
         IN IF Len(t.fields) > U16_MAX THEN ErrBytes("too_many_fields")
            ELSE IF ~fields.some THEN ErrBytes("unknown_field")
            ELSE LET flowset ==
                        packet \o to_be_bytes(IF version = 9 THEN 0 ELSE 2, 2)
                        \o to_be_bytes(0, 2) \o to_be_bytes(t.template_id, 2)
                        \o to_be_bytes(Len(t.fields), 2) \o fields.val
                     padded == IF version = 9 THEN flowset
                               ELSE pad_flowset(flowset, length_pos)
                     len == flowset_length(padded, length_pos)
                 IN IF ~len.some THEN ErrBytes("length_overflow")
                    ELSE template_flowsets_bytes(copy_u16_at(padded, length_pos, len.val),
                                                 Tail(templates), version)

\* v9.rs build_template_packet
v9_build_template_packet_bytes(sys_up_time, unix_secs, sequence_number, source_id, templates) ==
    IF Len(templates) > U16_MAX THEN ErrBytes("too_many_templates")
    ELSE template_flowsets_bytes(
            v9_header_bytes(Len(templates), sys_up_time, unix_secs, sequence_number,
                            source_id),
            templates, 9)

\* the back-patch of the IPFIX total length, at offset 2
ipfix_patch_total_length(built) ==
    IF ~built.ok THEN built
    ELSE IF ~ipfix_total_length(built.bytes).some THEN ErrBytes("length_overflow")
    ELSE OkBytes(copy_u16_at(built.bytes, 2, ipfix_total_length(built.bytes).val))

\* ipfix.rs build_template_packet
ipfix_build_template_packet_bytes(export_time, sequence_number, observation_domain_id, templates) ==
    ipfix_patch_total_length(
        template_flowsets_bytes(
            ipfix_header_bytes(export_time, sequence_number, observation_domain_id),
            templates, 10))

\* one record: its fields in template order, the value looked up under the
\* key name of the field, a missing value taken as the number 0
RECURSIVE record_bytes(_, _, _)
record_bytes(record, template_fields, version) ==
    IF template_fields = <<>> THEN OkBytes(<<>>)
    ELSE LET field == Head(template_fields)
             id == field_name_to_id(version, field.field_type)
         IN IF ~id.some THEN ErrBytes("unknown_field")
            ELSE LET value == unwrap_or(get_field_value(record,
                                            field_id_to_name(version, id.val)), PosInt(0))
                     rest == record_bytes(record, Tail(template_fields), version)
                 IN IF ~rest.ok THEN rest
                    ELSE OkBytes(serialize_field_value(value, field.field_length)
                                 \o rest.bytes)

\* the loop over the records of a data flowset
RECURSIVE records_bytes(_, _, _)
records_bytes(records, template_fields, version) ==
    IF records = <<>> THEN OkBytes(<<>>)
    ELSE LET first == record_bytes(Head(records), template_fields, version)
             rest == records_bytes(Tail(records), template_fields, version)
         IN IF ~first.ok THEN first ELSE IF ~rest.ok THEN rest
            ELSE OkBytes(first.bytes \o rest.bytes)

\* the data flowset appended to a message header: set id, length, records,
\* padding, back-patched length
data_flowset_bytes(header, template_id, template_fields, records, version) ==
    LET length_pos == Len(header) + 2
        recs == records_bytes(records, template_fields, version)
    IN IF ~recs.ok THEN recs
       ELSE LET padded == pad_flowset(header \o to_be_bytes(template_id, 2)
                                      \o to_be_bytes(0, 2) \o recs.bytes, length_pos)
                len == flowset_length(padded, length_pos)
            IN IF ~len.some THEN ErrBytes("length_overflow")
               ELSE OkBytes(copy_u16_at(padded, length_pos, len.val))

\* v9.rs build_data_packet
v9_build_data_packet_bytes(sys_up_time, unix_secs, sequence_number, source_id, template_id, template_fields, records) ==
    data_flowset_bytes(v9_header_bytes(1, sys_up_time, unix_secs, sequence_number, source_id),
                       template_id, template_fields, records, 9)

\* ipfix.rs build_data_packet
ipfix_build_data_packet_bytes(export_time, sequence_number, observation_domain_id, template_id, template_fields, records) ==
    ipfix_patch_total_length(
        data_flowset_bytes(
            ipfix_header_bytes(export_time, sequence_number, observation_domain_id),
            template_id, template_fields, records, 10))

(* ---------------------------------------------------------------------- *)
(* v5 and v7 packets, byte by byte. The structs Header, FlowSet, V5, V7    *)
(* and their to_be_bytes belong to the netflow_parser crate; the byte      *)
(* layout is the fixed v5/v7 layout of sections 4.1 and 4.2.               *)
(* ---------------------------------------------------------------------- *)
\* the default of sys_up_time
DefaultSysUpTime == 360000

\* v5.rs build_header: every field of the Header, unix_secs defaulting to
\* the wall clock
v5_header_fields(config, wall_secs) ==
    [version |-> 5,
     count |-> Len(config.flowsets),
     sys_up_time |-> IF config.header.some
                     THEN unwrap_or(config.header.val.sys_up_time, DefaultSysUpTime)
                     ELSE DefaultSysUpTime,
     unix_secs |-> IF config.header.some
                   THEN unwrap_or(config.header.val.unix_secs, wall_secs) ELSE wall_secs,
     unix_nsecs |-> IF config.header.some
                    THEN unwrap_or(config.header.val.unix_nsecs, 0) ELSE 0,
     flow_sequence |-> IF config.header.some
                       THEN unwrap_or(config.header.val.flow_sequence, 0) ELSE 0,
     engine_type |-> IF config.header.some
                     THEN unwrap_or(config.header.val.engine_type, 0) ELSE 0,
     engine_id |-> IF config.header.some
                   THEN unwrap_or(config.header.val.engine_id, 0) ELSE 0,
     sampling_interval |-> IF config.header.some
                           THEN unwrap_or(config.header.val.sampling_interval, 0) ELSE 0]

\* a record that takes the AS numbers in the opposite order
v5_flowset_swapped_as(fs) ==
    [src_addr |-> fs.src_addr, dst_addr |-> fs.dst_addr, next_hop |-> fs.next_hop,
     input |-> fs.input, output |-> fs.output, d_pkts |-> fs.d_pkts,
     d_octets |-> fs.d_octets, first |-> fs.first, last |-> fs.last,
     src_port |-> fs.src_port, dst_port |-> fs.dst_port, pad1 |-> 0,
     tcp_flags |-> fs.tcp_flags, protocol_number |-> fs.protocol, tos |-> fs.tos,
     src_as |-> fs.dst_as, dst_as |-> fs.src_as, src_mask |-> fs.src_mask,
     dst_mask |-> fs.dst_mask, pad2 |-> 0]

\* v5.rs build_v5_packet: the FlowSet built from a configured flowset
v5_flowset(fs) ==
    [src_addr |-> fs.src_addr, dst_addr |-> fs.dst_addr, next_hop |-> fs.next_hop,
     input |-> fs.input, output |-> fs.output, d_pkts |-> fs.d_pkts,
     d_octets |-> fs.d_octets, first |-> fs.first, last |-> fs.last,
     src_port |-> fs.src_port, dst_port |-> fs.dst_port, pad1 |-> 0,
     tcp_flags |-> fs.tcp_flags, protocol_number |-> fs.protocol, tos |-> fs.tos,
     src_as |-> fs.src_as, dst_as |-> fs.dst_as, src_mask |-> fs.src_mask,
     dst_mask |-> fs.dst_mask, pad2 |-> 0]

\* Header::to_be_bytes of v5: 24 bytes
V5_header_to_be_bytes(h) ==
    to_be_bytes(h.version, 2) \o to_be_bytes(h.count, 2) \o to_be_bytes(h.sys_up_time, 4)
    \o to_be_bytes(h.unix_secs, 4) \o to_be_bytes(h.unix_nsecs, 4)
    \o to_be_bytes(h.flow_sequence, 4) \o to_be_bytes(h.engine_type, 1)
    \o to_be_bytes(h.engine_id, 1) \o to_be_bytes(h.sampling_interval, 2)

\* FlowSet::to_be_bytes of v5: 48 bytes
V5_flowset_to_be_bytes(f) ==
    f.src_addr \o f.dst_addr \o f.next_hop \o to_be_bytes(f.input, 2)
    \o to_be_bytes(f.output, 2) \o to_be_bytes(f.d_pkts, 4) \o to_be_bytes(f.d_octets, 4)
    \o to_be_bytes(f.first, 4) \o to_be_bytes(f.last, 4) \o to_be_bytes(f.src_port, 2)
    \o to_be_bytes(f.dst_port, 2) \o to_be_bytes(f.pad1, 1) \o to_be_bytes(f.tcp_flags, 1)
    \o to_be_bytes(f.protocol_number, 1) \o to_be_bytes(f.tos, 1)
    \o to_be_bytes(f.src_as, 2) \o to_be_bytes(f.dst_as, 2) \o to_be_bytes(f.src_mask, 1)
    \o to_be_bytes(f.dst_mask, 1) \o to_be_bytes(f.pad2, 2)

\* V5::to_be_bytes: the header, then every flowset
V5_to_be_bytes(header, flowsets) ==
    V5_header_to_be_bytes(header)
    \o Concat([i \in DOMAIN flowsets |-> V5_flowset_to_be_bytes(flowsets[i])])

\* a builder that serializes all flowsets but the last
build_v5_packet_bytes_short(config, wall_secs) ==
    IF config.flowsets = <<>> THEN ErrBytes("empty")
    ELSE IF Len(config.flowsets) > U16_MAX THEN ErrBytes("too_many_flowsets")
    ELSE OkBytes(V5_to_be_bytes(v5_header_fields(config, wall_secs),
                    [i \in 1..(Len(config.flowsets) - 1) |-> v5_flowset(config.flowsets[i])]))

\* v5.rs build_v5_packet
build_v5_packet_bytes(config, wall_secs) ==
    IF config.flowsets = <<>> THEN ErrBytes("empty")
    ELSE IF Len(config.flowsets) > U16_MAX THEN ErrBytes("too_many_flowsets")
    ELSE OkBytes(V5_to_be_bytes(v5_header_fields(config, wall_secs),
                    [i \in DOMAIN config.flowsets |-> v5_flowset(config.flowsets[i])]))

\* v7.rs build_header
v7_header_fields(config, wall_secs) ==
    [version |-> 7,
     count |-> Len(config.flowsets),
     sys_up_time |-> IF config.header.some
                     THEN unwrap_or(config.header.val.sys_up_time, DefaultSysUpTime)
                     ELSE DefaultSysUpTime,
     unix_secs |-> IF config.header.some
                   THEN unwrap_or(config.header.val.unix_secs, wall_secs) ELSE wall_secs,
     unix_nsecs |-> IF config.header.some
                    THEN unwrap_or(config.header.val.unix_nsecs, 0) ELSE 0,
     flow_sequence |-> IF config.header.some
                       THEN unwrap_or(config.header.val.flow_sequence, 0) ELSE 0,
     reserved |-> IF config.header.some
                  THEN unwrap_or(config.header.val.reserved, 0) ELSE 0]

\* v7.rs build_v7_packet: the FlowSet built from a configured flowset
v7_flowset(fs) ==
    [src_addr |-> fs.src_addr, dst_addr |-> fs.dst_addr, next_hop |-> fs.next_hop,
     input |-> fs.input, output |-> fs.output, d_pkts |-> fs.d_pkts,
     d_octets |-> fs.d_octets, first |-> fs.first, last |-> fs.last,
     src_port |-> fs.src_port, dst_port |-> fs.dst_port,
     flags_fields_valid |-> fs.flags, tcp_flags |-> fs.tcp_flags,
     protocol_number |-> fs.protocol, tos |-> fs.tos, src_as |-> fs.src_as,
     dst_as |-> fs.dst_as, src_mask |-> fs.src_mask, dst_mask |-> fs.dst_mask,
     flags_fields_invalid |-> fs.flags2, router_src |-> fs.router_src]

\* Header::to_be_bytes of v7: 24 bytes
V7_header_to_be_bytes(h) ==
    to_be_bytes(h.version, 2) \o to_be_bytes(h.count, 2) \o to_be_bytes(h.sys_up_time, 4)
    \o to_be_bytes(h.unix_secs, 4) \o to_be_bytes(h.unix_nsecs, 4)
    \o to_be_bytes(h.flow_sequence, 4) \o to_be_bytes(h.reserved, 4)

\* FlowSet::to_be_bytes of v7: 52 bytes
V7_flowset_to_be_bytes(f) ==
    f.src_addr \o f.dst_addr \o f.next_hop \o to_be_bytes(f.input, 2)
    \o to_be_bytes(f.output, 2) \o to_be_bytes(f.d_pkts, 4) \o to_be_bytes(f.d_octets, 4)
    \o to_be_bytes(f.first, 4) \o to_be_bytes(f.last, 4) \o to_be_bytes(f.src_port, 2)
    \o to_be_bytes(f.dst_port, 2) \o to_be_bytes(f.flags_fields_valid, 1)
    \o to_be_bytes(f.tcp_flags, 1) \o to_be_bytes(f.protocol_number, 1)
    \o to_be_bytes(f.tos, 1) \o to_be_bytes(f.src_as, 2) \o to_be_bytes(f.dst_as, 2)
    \o to_be_bytes(f.src_mask, 1) \o to_be_bytes(f.dst_mask, 1)
    \o to_be_bytes(f.flags_fields_invalid, 2) \o f.router_src

\* V7::to_be_bytes
V7_to_be_bytes(header, flowsets) ==
    V7_header_to_be_bytes(header)
    \o Concat([i \in DOMAIN flowsets |-> V7_flowset_to_be_bytes(flowsets[i])])

\* v7.rs build_v7_packet
build_v7_packet_bytes(config, wall_secs) ==
    IF config.flowsets = <<>> THEN ErrBytes("empty")
    ELSE IF Len(config.flowsets) > U16_MAX THEN ErrBytes("too_many_flowsets")
    ELSE OkBytes(V7_to_be_bytes(v7_header_fields(config, wall_secs),
                    [i \in DOMAIN config.flowsets |-> v7_flowset(config.flowsets[i])]))

(* ---------------------------------------------------------------------- *)
(* The time stamps of the headers.  Every build of an entry reads the wall *)
(* clock once (get_header_values, build_header) and writes the same values *)
(* into all messages of the entry.                                         *)
(* ---------------------------------------------------------------------- *)
\* time stamps that are always taken from the clock
header_times_from_clock(flow, wall_secs) ==
    [sys_up_time |-> DefaultSysUpTime, unix_secs |-> wall_secs]

\* sys_up_time and unix_secs (IPFIX: export_time, and no sys_up_time) of the
\* messages of an entry built when the wall clock shows wall_secs
header_times(flow, wall_secs) ==
    CASE flow.version = "v5" ->
            [sys_up_time |-> v5_header_fields(flow, wall_secs).sys_up_time,
             unix_secs |-> v5_header_fields(flow, wall_secs).unix_secs]
      [] flow.version = "v7" ->
            [sys_up_time |-> v7_header_fields(flow, wall_secs).sys_up_time,
             unix_secs |-> v7_header_fields(flow, wall_secs).unix_secs]
      [] flow.version = "v9" ->
            [sys_up_time |-> IF flow.header.some
                             THEN unwrap_or(flow.header.val.sys_up_time, DefaultSysUpTime)
                             ELSE DefaultSysUpTime,
             unix_secs |-> IF flow.header.some
                           THEN unwrap_or(flow.header.val.unix_secs, wall_secs)
                           ELSE wall_secs]
      [] flow.version = "ipfix" ->
            [sys_up_time |-> 0,
             unix_secs |-> IF flow.header.some
                           THEN unwrap_or(flow.header.val.export_time, wall_secs)
                           ELSE wall_secs]

\* the processing of the group reaches an IPFIX build that overflows
process_exporter_group_overflows(flows, initial_sequence, send_templates) ==
    \E k \in DOMAIN flows :
        /\ flows[k].flow.version = "ipfix"
        /\ ipfix_overflows(flows[k].flow)
        /\ process_exporter_group(SubSeq(flows, 1, k - 1), initial_sequence,
                                  send_templates).ok

\* the messages pkts of a group with their time stamps: the message at
\* position n of the output, built from the entry at position k of the group,
\* carries the values of that entry read at clock[k] + drift * n
RECURSIVE Stamped(_, _, _, _, _)
Stamped(pkts, n, flows, clock, drift) ==
    IF n > Len(pkts) THEN <<>>
    ELSE LET k == CHOOSE k \in DOMAIN flows : flows[k].index = pkts[n].entry
         IN <<[msg |-> pkts[n],
               times |-> header_times(flows[k].flow, clock[k] + drift * n)]>>
            \o Stamped(pkts, n + 1, flows, clock, drift)

\* the result r of a group with the time stamps of its messages
StampedResult(r, flows, clock, drift) ==
    IF ~r.ok THEN r ELSE Ok(Stamped(r.packets, 1, flows, clock, drift), r.next_seq)

\* a build that reads the clock anew for every message, a second later each
process_exporter_group_at_per_message(flows, initial_sequence, send_templates, clock) ==
    StampedResult(process_exporter_group(flows, initial_sequence, send_templates),
                  flows, clock, 1)

\* main.rs process_exporter_group with the time stamps of the messages:
\* clock[k] is what the wall clock shows when the k-th entry is built
process_exporter_group_at(flows, initial_sequence, send_templates, clock) ==
    StampedResult(process_exporter_group(flows, initial_sequence, send_templates),
                  flows, clock, 0)

(* ---------------------------------------------------------------------- *)
(* Capture framing (transmitter/udp.rs)                                    *)
(* ---------------------------------------------------------------------- *)
\* SocketAddr
SocketAddrV4(ip, port) == [family |-> "V4", ip |-> ip, port |-> port]
SocketAddrV6(ip, port) == [family |-> "V6", ip |-> ip, port |-> port]

\* a conversion that keeps the low 16 bits (`as u16`)
u16_wrapping(v) == SomeOpt(v % (U16_MAX + 1))

\* u16::try_from(usize)
u16_try_from(v) == IF v > U16_MAX THEN NoneOpt ELSE SomeOpt(v)

\* the sum of the 16-bit big-endian words of data, an odd last byte taken as
\* the high byte of a word
RECURSIVE sum_words(_)
sum_words(data) ==
    IF data = <<>> THEN 0
    ELSE IF Len(data) = 1 THEN from_be_bytes(data[1], 0)
    ELSE from_be_bytes(data[1], data[2]) + sum_words(SubSeq(data, 3, Len(data)))

\* the fold of the 32-bit sum to 16 bits
RECURSIVE fold(_)
fold(sum) == IF sum \div 65536 # 0 THEN fold((sum % 65536) + (sum \div 65536)) ELSE sum

\* a checksum that drops the carries instead of folding them
calculate_checksum_truncating(data) == U16_MAX - (sum_words(data) % 65536)

\* udp.rs calculate_checksum: the one's complement of the folded sum
calculate_checksum(data) == U16_MAX - fold(sum_words(data))

\* the source address and port of every frame
CaptureSrcIp == <<10, 0, 0, 1>>
CaptureSrcPort == 12345

\* udp.rs build_udp_packet
build_udp_packet(src_ip, src_port, dest, payload) ==
    IF dest.family = "V6" THEN ErrBytes("invalid_destination")
    ELSE LET ethernet == <<0, 0, 0, 0, 0, 2>> \o <<0, 0, 0, 0, 0, 1>> \o <<8, 0>>
             ip_total_length == u16_try_from(20 + 8 + Len(payload))
             udp_length == u16_try_from(8 + Len(payload))
         IN IF ~ip_total_length.some THEN ErrBytes("invalid_packet")
            ELSE LET ip == <<69, 0>> \o to_be_bytes(ip_total_length.val, 2) \o <<0, 0>>
                           \o <<64, 0>> \o <<64>> \o <<17>> \o <<0, 0>> \o src_ip
                           \o dest.ip
                     ip_checksum == calculate_checksum(ip)
                 IN IF ~udp_length.some THEN ErrBytes("invalid_packet")
                    ELSE OkBytes(ethernet \o copy_u16_at(ip, 10, ip_checksum)
                                 \o to_be_bytes(src_port, 2) \o to_be_bytes(dest.port, 2)
                                 \o to_be_bytes(udp_length.val, 2) \o <<0, 0>> \o payload)

(* ---------------------------------------------------------------------- *)
(* Startup: validation of the configuration and the destination            *)
(* ---------------------------------------------------------------------- *)
\* Result<()>
OkUnit == [ok |-> TRUE, err |-> "none"]
ErrUnit(kind) == [ok |-> FALSE, err |-> kind]

\* the text of an address: its labels (decimal numbers for the dotted form,
\* the values of the groups for the colon form, -1 for a label that is no
\* number) and the separator between them
IpText(sep, labels) == [sep |-> sep, labels |-> labels]

\* str::parse::<Ipv6Addr>, for the form of eight groups
parse_Ipv6Addr(labels) ==
    IF Len(labels) = 8 /\ \A i \in 1..8 : labels[i] >= 0 /\ labels[i] <= U16_MAX
    THEN SomeOpt(labels) ELSE NoneOpt

\* str::parse::<IpAddr>: the family and the address, or None
parse_IpAddr(text) ==
    IF text.sep = "." /\ parse_Ipv4Addr(text.labels).some
    THEN SomeOpt([family |-> "V4", ip |-> text.labels])
    ELSE IF text.sep = ":" /\ parse_Ipv6Addr(text.labels).some
    THEN SomeOpt([family |-> "V6", ip |-> text.labels])
    ELSE [some |-> FALSE, val |-> [family |-> "none", ip |-> <<>>]]

\* the text IP:PORT of --dest; port is -1 when the text has no valid port
DestText(ip, port) == [ip |-> ip, port |-> port]

\* str::parse::<SocketAddr>
parse_SocketAddr(text) ==
    IF parse_IpAddr(text.ip).some /\ text.port >= 0 /\ text.port <= U16_MAX
    THEN SomeOpt(IF parse_IpAddr(text.ip).val.family = "V4"
                 THEN SocketAddrV4(parse_IpAddr(text.ip).val.ip, text.port)
                 ELSE SocketAddrV6(parse_IpAddr(text.ip).val.ip, text.port))
    ELSE [some |-> FALSE, val |-> [family |-> "none", ip |-> <<>>, port |-> 0]]

\* the destination used when --dest is absent: 127.0.0.1:2055
DefaultDestText == DestText(IpText(".", <<127, 0, 0, 1>>), 2055)

\* main.rs parse_destination
parse_destination(cli) ==
    IF cli.dest.some THEN parse_SocketAddr(cli.dest.val)
    ELSE parse_SocketAddr(DefaultDestText)

\* a validation that looks at the flows only
validate_config_flows_only(cfg) ==
    IF cfg.flows = <<>> THEN ErrUnit("validation") ELSE OkUnit

\* validator.rs validate_config (with validate_destination)
validate_config(cfg) ==
    IF cfg.flows = <<>> THEN ErrUnit("validation")
    ELSE IF ~parse_IpAddr(cfg.destination.ip).some THEN ErrUnit("validation")
    ELSE OkUnit

(* ---------------------------------------------------------------------- *)
(* The sinks (transmitter/udp.rs), at the level of messages                *)
(* ---------------------------------------------------------------------- *)
\* what a sink did with the packets of a tick: the datagrams or capture
\* records it produced, in order, and its result
SinkResult(out, res) == [out |-> out, ok |-> res.ok, err |-> res.err]

\* cli.rs: the default of --source-port
SRC_PORT == 2056

\* udp.rs send_udp: UdpSocket::bind("0.0.0.0:0"), the port of every socket it
\* binds is left to the system (0), and it binds one on every call
UdpBindPort == 0

\* index of the first packet whose send_to fails: the socket is bound to
\* 0.0.0.0, so that every send to an IPv6 destination fails; fails_at is the
\* first send the network fails (0: none)
first_failed_send(n, destination, fails_at) ==
    IF n > 0 /\ destination.family = "V6" THEN 1 ELSE fails_at

\* a transmitter that skips the buffer it could not send and goes on
send_udp_skipping(pkts, destination, fails_at) ==
    LET bad == first_failed_send(Len(pkts), destination, fails_at)
    IN SinkResult([k \in 1..(IF bad = 0 THEN Len(pkts) ELSE Len(pkts) - 1) |->
                      [payload |-> pkts[IF bad # 0 /\ k >= bad THEN k + 1 ELSE k],
                       dest |-> destination]],
                  IF bad = 0 THEN OkUnit ELSE ErrUnit("network"))

\* udp.rs send_udp: one send_to per packet, in order; the first failure
\* returns the error and leaves the rest unsent
send_udp(pkts, destination, fails_at) ==
    LET bad == first_failed_send(Len(pkts), destination, fails_at)
    IN SinkResult([k \in 1..(IF bad = 0 THEN Len(pkts) ELSE bad - 1) |->
                      [payload |-> pkts[k], dest |-> destination]],
                  IF bad = 0 THEN OkUnit ELSE ErrUnit("network"))

\* a framer that frames for an IPv6 destination as well
frame_error_none(destination) == "none"

\* the error of build_udp_packet for a destination: IPv6 is refused
frame_error(destination) ==
    IF destination.family = "V6" THEN "invalid_destination" ELSE "none"

\* a writer that starts the file anew on every call
write_packet_truncating(file, records) == records

\* PcapWriter::write_packet on the writer that was opened at startup: the
\* records go to the end of the file
write_packet(file, records) == file \o records

\* udp.rs write_packets_to_pcap: every packet is framed and written as one
\* record; the first framing error or write error (fails_at; 0: none) is
\* returned and leaves the rest unwritten
write_packets_to_pcap(pkts, destination, fails_at) ==
    IF pkts # <<>> /\ frame_error(destination) # "none"
    THEN SinkResult(<<>>, ErrUnit(frame_error(destination)))
    ELSE SinkResult([k \in 1..(IF fails_at = 0 THEN Len(pkts) ELSE fails_at - 1) |->
                        [payload |-> pkts[k], dest |-> destination]],
                    IF fails_at = 0 THEN OkUnit ELSE ErrUnit("io"))

(* ---------------------------------------------------------------------- *)
(* Configurations the model is run on                                      *)
(* ---------------------------------------------------------------------- *)
Template(template_id, fields) ==
    [type |-> "template", template_id |-> template_id, fields |-> fields, records |-> <<>>]
Data(template_id, n) ==
    [type |-> "data", template_id |-> template_id, fields |-> <<>>,
     records |-> [i \in 1..n |-> i]]

Field(name, len) == [field_type |-> name, field_length |-> len]
V9Fields == <<Field("IPV4_SRC_ADDR", 4), Field("L4_SRC_PORT", 2)>>
V9Unknown == <<Field("IPV4_SRC_ADDR", 4), Field("sourceTransportPort", 2)>>
IPFixFields == <<Field("sourceIPv4Address", 4), Field("sourceTransportPort", 2)>>
IPFixUnknown == <<Field("sourceIPv4Address", 4), Field("L4_SRC_PORT", 2)>>

\* flowset lists of a template-based entry, over registered fields g and a
\* field list b holding an unregistered name
FlowsetLists(g, b) ==
    { <<Template(256, g), Data(256, n)>> : n \in 0..MaxRecords }
    \cup { <<Data(256, 1), Template(256, g)>>,
           <<Template(256, g)>>,
           <<Template(256, g), Data(257, 1)>>,
           <<Template(256, b), Data(256, 1)>>,
           <<Template(256, b), Data(256, 0)>>,
           <<Template(256, g), Template(257, g), Data(257, 1), Data(256, MaxRecords)>> }

V9HeaderAll(sys_up_time, unix_secs, sequence_number, source_id) ==
    SomeOpt([sys_up_time |-> sys_up_time, unix_secs |-> unix_secs,
             sequence_number |-> sequence_number, source_id |-> source_id])
V9Header(seq, sid) == V9HeaderAll(NoneOpt, NoneOpt, seq, sid)
NoV9Header == [some |-> FALSE, val |-> V9HeaderAll(NoneOpt, NoneOpt, NoneOpt, NoneOpt).val]
IPFixHeaderAll(export_time, sequence_number, observation_domain_id) ==
    SomeOpt([export_time |-> export_time, sequence_number |-> sequence_number,
             observation_domain_id |-> observation_domain_id])
IPFixHeader(seq, dom) == IPFixHeaderAll(NoneOpt, seq, dom)
NoIPFixHeader == [some |-> FALSE, val |-> IPFixHeaderAll(NoneOpt, NoneOpt, NoneOpt).val]
V5HeaderAll(unix_secs, unix_nsecs, sys_up_time, flow_sequence, engine_type, engine_id, sampling_interval) ==
    SomeOpt([unix_secs |-> unix_secs, unix_nsecs |-> unix_nsecs,
             sys_up_time |-> sys_up_time, flow_sequence |-> flow_sequence,
             engine_type |-> engine_type, engine_id |-> engine_id,
             sampling_interval |-> sampling_interval])
V5Header(seq, et, eid) == V5HeaderAll(NoneOpt, NoneOpt, NoneOpt, seq, et, eid, NoneOpt)
NoV5Header ==
    [some |-> FALSE,
     val |-> V5HeaderAll(NoneOpt, NoneOpt, NoneOpt, NoneOpt, NoneOpt, NoneOpt, NoneOpt).val]
V7HeaderAll(unix_secs, unix_nsecs, sys_up_time, flow_sequence, reserved) ==
    SomeOpt([unix_secs |-> unix_secs, unix_nsecs |-> unix_nsecs,
             sys_up_time |-> sys_up_time, flow_sequence |-> flow_sequence,
             reserved |-> reserved])
V7Header(seq) == V7HeaderAll(NoneOpt, NoneOpt, NoneOpt, seq, NoneOpt)
NoV7Header ==
    [some |-> FALSE, val |-> V7HeaderAll(NoneOpt, NoneOpt, NoneOpt, NoneOpt, NoneOpt).val]

Flow(version, header, flowsets) ==
    [version |-> version, header |-> header, flowsets |-> flowsets]

V9Entries ==
    { Flow("v9", NoV9Header, fl) : fl \in FlowsetLists(V9Fields, V9Unknown) }
    \cup { Flow("v9", V9Header(SomeOpt(7), SomeOpt(2)),
                <<Template(256, V9Fields), Data(256, MaxRecords)>>) }
IPFixEntries ==
    { Flow("ipfix", NoIPFixHeader, fl) : fl \in FlowsetLists(IPFixFields, IPFixUnknown) }
    \cup { Flow("ipfix", IPFixHeader(SomeOpt(7), SomeOpt(2)),
                <<Template(256, IPFixFields), Data(256, MaxRecords)>>) }
V5Entries ==
    { Flow("v5", NoV5Header, <<1>>),
      Flow("v5", V5Header(SomeOpt(7), NoneOpt, SomeOpt(1)), [i \in 1..MaxRecords |-> i]) }
V7Entries ==
    { Flow("v7", NoV7Header, <<1>>),
      Flow("v7", V7Header(SomeOpt(7)), [i \in 1..MaxRecords |-> i]) }

Entries == V9Entries \cup IPFixEntries \cup V5Entries \cup V7Entries

\* validate_config has accepted the configuration: flows is not empty
FlowCounts == {1, 2}
Configs == UNION { [1..n -> Entries] : n \in FlowCounts }

\* --interval values (seconds); 2 is the default
Intervals == {2, 15, 30}

\* the destination key of the file: the default, an IPv6 address, and texts
\* that are no address
DefaultDestination == [ip |-> IpText(".", <<127, 0, 0, 1>>), port |-> 2055]
ConfigDestinations ==
    { DefaultDestination,
      [ip |-> IpText(":", <<8193, 3512, 0, 0, 0, 0, 0, 1>>), port |-> 2055],
      [ip |-> IpText(".", <<10, 0, 0, 256>>), port |-> 2055],
      [ip |-> IpText(".", <<-1>>), port |-> 9995] }

\* --dest: absent, IPv4, IPv6, and texts that are no socket address
DestArgs ==
    { [some |-> FALSE, val |-> DefaultDestText],
      SomeOpt(DestText(IpText(".", <<192, 0, 2, 7>>), 9995)),
      SomeOpt(DestText(IpText(":", <<8193, 3512, 0, 0, 0, 0, 0, 1>>), 2055)),
      SomeOpt(DestText(IpText(".", <<192, 0, 2, 7>>), -1)),
      SomeOpt(DestText(IpText(".", <<192, 0, 2>>), 2055)) }

\* no --dest, no --output
DefaultArgs == [dest |-> [some |-> FALSE, val |-> DefaultDestText], output |-> FALSE]

\* flows of the runs in which the command line and the environment vary:
\* none, one exporter, two exporters, an entry whose build fails, and two
\* entries of one exporter that define the same template id differently
StartupFlows ==
    { <<>>,
      <<Flow("v5", NoV5Header, <<1>>)>>,
      <<Flow("v9", NoV9Header, <<Template(256, V9Fields), Data(256, 1)>>),
        Flow("ipfix", NoIPFixHeader, <<Template(256, IPFixFields), Data(256, 1)>>)>>,
      <<Flow("v9", NoV9Header, <<Template(256, V9Unknown), Data(256, 1)>>)>>,
      <<Flow("v9", NoV9Header, <<Template(256, V9Fields), Data(256, 1)>>),
        Flow("v9", NoV9Header, <<Template(256, <<Field("IPV4_DST_ADDR", 4)>>),
                                 Data(256, 1)>>)>> }

(* ---------------------------------------------------------------------- *)
(* State                                                                   *)
(* ---------------------------------------------------------------------- *)
VARIABLES
    config,                 \* the configuration, loaded once
    interval_secs,          \* tick period
    pc,                     \* position of the main loop
    iteration,              \* number of the tick, from 1
    shutdown,               \* flag set by the signal handler
    now,                    \* the clock, in seconds
    lag,                    \* seconds the loop has lost waiting to be scheduled
    last_template_send,     \* Instant of the last template refresh
    send_templates,         \* the decision of the current tick
    sleep_start,            \* Instant at which the sleep of the tick began
    v5_sequence_numbers,    \* (engine_type, engine_id) -> u32
    v9_sequence_numbers,    \* source_id -> u32
    ipfix_sequence_numbers, \* observation_domain_id -> u32
    pending,                \* exporter groups of the tick not yet processed
    results,                \* results of the groups processed in the tick
    packets,                \* packets of the tick after the merge
    sent_log,               \* per exporter identity: packets handed to the sink
    tick_log,               \* per completed tick: the send_templates decision
    args,                   \* the command line: --dest and --output
    faulty,                 \* the environment may fail a send or a write
    destination,            \* the parsed destination
    datagrams,              \* datagrams sent by the latest call of send_udp
    capture,                \* records of the capture file
    error,                  \* the error main returned, "none" while there is none
    closes,                 \* number of calls of close on the capture writer
    opens,                  \* number of times the capture file was created
    binds,                  \* number of UDP sockets bound
    call,                   \* a builder or the framer applied on its own: the call
    ret                     \* and what it returned

main_vars == <<config, interval_secs, pc, iteration, shutdown, now, lag,
          last_template_send, send_templates, sleep_start,
          v5_sequence_numbers, v9_sequence_numbers, ipfix_sequence_numbers,
          pending, results, packets, sent_log, tick_log,
          args, faulty, destination, datagrams, capture, error, closes, opens, binds>>
vars == <<main_vars, call, ret>>

EmptyMap == [x \in {} |-> 0]
Groups == group_flows_by_exporter(config.flows)
IdOfPacket(p) == extract_exporter_id(config.flows[p.entry], p.entry - 1)

\* no function is being applied on its own
NoCall == [fn |-> "none"]
NoRet == OkBytes(<<>>)

\* before parse_destination has run
NoDestination == [family |-> "none", ip |-> <<>>, port |-> 0]

Init ==
    /\ call = NoCall
    /\ ret = NoRet
    /\ \/ /\ config \in [flows : Configs, destination : {DefaultDestination}]
          /\ interval_secs \in Intervals
          /\ args = DefaultArgs
          /\ faulty = FALSE
       \/ /\ config \in [flows : StartupFlows, destination : ConfigDestinations]
          /\ interval_secs = 2
          /\ args \in [dest : DestArgs, output : BOOLEAN]
          /\ faulty \in BOOLEAN
    /\ destination = NoDestination
    /\ datagrams = <<>>
    /\ capture = <<>>
    /\ error = "none"
    /\ closes = 0
    /\ opens = 0
    /\ binds = 0
    /\ pc = "start"
    /\ iteration = 1
    /\ shutdown = FALSE
    /\ now = 0
    /\ lag = 0
    /\ last_template_send = 0
    /\ send_templates = FALSE
    /\ sleep_start = 0
    /\ v5_sequence_numbers = EmptyMap
    /\ v9_sequence_numbers = EmptyMap
    /\ ipfix_sequence_numbers = EmptyMap
    /\ pending = {}
    /\ results = EmptyMap
    /\ packets = <<>>
    /\ sent_log = [id \in DOMAIN group_flows_by_exporter(config.flows) |-> <<>>]
    /\ tick_log = <<>>


(* ---------------------------------------------------------------------- *)
(* The periodic main loop (main.rs main) and one tick                      *)
(* (generate_packets_from_config)                                          *)
(* ---------------------------------------------------------------------- *)

\* a lookup in which v9 and IPFIX identities share the IPFIX store
initial_seq_shared(id) ==
    CASE id.kind = "V5" ->
            IF <<id.a, id.b>> \in DOMAIN v5_sequence_numbers
            THEN v5_sequence_numbers[<<id.a, id.b>>] ELSE 0
      [] id.kind = "V7" -> 0
      [] id.kind \in {"V9", "IPFix"} ->
            IF id.a \in DOMAIN ipfix_sequence_numbers
            THEN ipfix_sequence_numbers[id.a] ELSE 0

\* the sequence the store holds for an exporter identity, 0 when absent
initial_seq(id) ==
    CASE id.kind = "V5" ->
            IF <<id.a, id.b>> \in DOMAIN v5_sequence_numbers
            THEN v5_sequence_numbers[<<id.a, id.b>>] ELSE 0
      [] id.kind = "V7" -> 0
      [] id.kind = "V9" ->
            IF id.a \in DOMAIN v9_sequence_numbers THEN v9_sequence_numbers[id.a] ELSE 0
      [] id.kind = "IPFix" ->
            IF id.a \in DOMAIN ipfix_sequence_numbers
            THEN ipfix_sequence_numbers[id.a] ELSE 0

\* HashMap::insert
Insert(m, k, v) == [x \in DOMAIN m \cup {k} |-> IF x = k THEN v ELSE m[x]]

\* a refresh that waits for more than the interval
SendTemplatesDecisionStrict ==
    iteration = 1 \/ now - last_template_send > TEMPLATE_REFRESH_INTERVAL

\* the template-refresh decision of a tick
SendTemplatesDecision ==
    iteration = 1 \/ now - last_template_send >= TEMPLATE_REFRESH_INTERVAL

\* main before the loop: the configuration is validated, the destination
\* parsed and the capture file created; each of them may end the process
Startup ==
    /\ pc = "start"
    /\ \E created \in (IF faulty /\ args.output THEN BOOLEAN ELSE {TRUE}) :
          IF ~validate_config(config).ok
          THEN pc' = "failed" /\ error' = validate_config(config).err
               /\ destination' = destination
          ELSE IF ~parse_destination(args).some
          THEN pc' = "failed" /\ error' = "invalid_destination"
               /\ destination' = destination
          ELSE IF ~created
          THEN pc' = "failed" /\ error' = "io"
               /\ destination' = parse_destination(args).val
          ELSE pc' = "top" /\ error' = error
               /\ destination' = parse_destination(args).val
    /\ UNCHANGED <<config, interval_secs, iteration, shutdown, now, lag,
                   last_template_send, send_templates, sleep_start,
                   v5_sequence_numbers, v9_sequence_numbers, ipfix_sequence_numbers,
                   pending, results, packets, sent_log, tick_log>>
    /\ UNCHANGED <<args, faulty, datagrams, capture>>
    /\ UNCHANGED <<call, ret, closes, binds>>
    /\ opens' = IF pc' = "top" /\ args.output THEN opens + 1 ELSE opens

\* top of the loop: leave on shutdown, else decide the template refresh and
\* group the flow entries of the tick
LoopTop ==
    /\ pc = "top"
    /\ IF shutdown
       THEN /\ pc' = "closing"
            /\ UNCHANGED <<send_templates, last_template_send, pending, results>>
       ELSE /\ iteration <= MaxTicks
            /\ send_templates' = SendTemplatesDecision
            /\ last_template_send' =
                  IF SendTemplatesDecision /\ iteration > 1 THEN now
                  ELSE last_template_send
            /\ pending' = DOMAIN Groups
            /\ results' = EmptyMap
            /\ pc' = "generate"
    /\ UNCHANGED <<config, interval_secs, iteration, shutdown, now, lag, sleep_start,
                   v5_sequence_numbers, v9_sequence_numbers, ipfix_sequence_numbers,
                   packets, sent_log, tick_log>>
    /\ UNCHANGED <<args, faulty, destination, datagrams, capture, error>>
    /\ UNCHANGED <<call, ret, closes, opens, binds>>

\* a worker that writes the sequence it reached into the v9 store itself
ProcessGroupWriting(id) ==
    /\ pc = "generate"
    /\ id \in pending
    /\ pending' = pending \ {id}
    /\ results' = Insert(results, id,
                     process_exporter_group(Groups[id], initial_seq(id), send_templates))
    /\ v9_sequence_numbers' =
          IF id.kind = "V9" /\ results'[id].ok
          THEN Insert(v9_sequence_numbers, id.a, results'[id].next_seq)
          ELSE v9_sequence_numbers
    /\ UNCHANGED <<config, interval_secs, pc, iteration, shutdown, now, lag,
                   last_template_send, send_templates, sleep_start,
                   v5_sequence_numbers, ipfix_sequence_numbers,
                   packets, sent_log, tick_log>>
    /\ UNCHANGED <<args, faulty, destination, datagrams, capture, error>>
    /\ UNCHANGED <<call, ret, closes, opens, binds>>

\* one exporter group is processed by a worker of the pool
ProcessGroup(id) ==
    /\ pc = "generate"
    /\ id \in pending
    /\ pending' = pending \ {id}
    /\ results' = Insert(results, id,
                     process_exporter_group(Groups[id], initial_seq(id), send_templates))
    /\ UNCHANGED <<config, interval_secs, pc, iteration, shutdown, now, lag,
                   last_template_send, send_templates, sleep_start,
                   v5_sequence_numbers, v9_sequence_numbers, ipfix_sequence_numbers,
                   packets, sent_log, tick_log>>
    /\ UNCHANGED <<args, faulty, destination, datagrams, capture, error>>
    /\ UNCHANGED <<call, ret, closes, opens, binds>>

\* a collection that, before it returns the error, stores the sequences of
\* the groups that succeeded
CollectErrMerging ==
    /\ pc = "generate"
    /\ \E id \in DOMAIN results : ~results[id].ok
    /\ pc' = "failed"
    /\ LET Done(kind) == {id \in DOMAIN results : id.kind = kind /\ results[id].ok}
           Key(id) == IF id.kind = "V5" THEN <<id.a, id.b>> ELSE id.a
           Stored(store, kind) ==
               [x \in DOMAIN store \cup {Key(id) : id \in Done(kind)} |->
                   IF \E id \in Done(kind) : Key(id) = x
                   THEN results[CHOOSE id \in Done(kind) : Key(id) = x].next_seq
                   ELSE store[x]]
       IN /\ v5_sequence_numbers' = Stored(v5_sequence_numbers, "V5")
          /\ v9_sequence_numbers' = Stored(v9_sequence_numbers, "V9")
          /\ ipfix_sequence_numbers' = Stored(ipfix_sequence_numbers, "IPFix")
    /\ UNCHANGED <<config, interval_secs, iteration, shutdown, now, lag,
                   last_template_send, send_templates, sleep_start,
                   pending, results, packets, sent_log, tick_log>>
    /\ error' = "generation"
    /\ UNCHANGED <<args, faulty, destination, datagrams, capture>>
    /\ UNCHANGED <<call, ret, closes, opens, binds>>

\* a collection that drops the groups that failed and keeps the tick going
CollectErrSkipping ==
    /\ pc = "generate"
    /\ pending = {}
    /\ \E id \in DOMAIN results : ~results[id].ok
    /\ \E order \in Perms({id \in DOMAIN results : results[id].ok}) :
          packets' = Concat([k \in DOMAIN order |-> results[order[k]].packets])
    /\ results' = EmptyMap
    /\ pc' = "output"
    /\ UNCHANGED <<config, interval_secs, iteration, shutdown, now, lag,
                   last_template_send, send_templates, sleep_start,
                   v5_sequence_numbers, v9_sequence_numbers, ipfix_sequence_numbers,
                   pending, sent_log, tick_log, error>>
    /\ UNCHANGED <<args, faulty, destination, datagrams, capture>>
    /\ UNCHANGED <<call, ret, closes, opens, binds>>

\* collect::<Result<Vec<_>>>()? : the error of a group ends the tick and, by
\* the `?` in main, the process
CollectErr ==
    /\ pc = "generate"
    /\ \E id \in DOMAIN results : ~results[id].ok
    /\ pc' = "failed"
    /\ UNCHANGED <<config, interval_secs, iteration, shutdown, now, lag,
                   last_template_send, send_templates, sleep_start,
                   v5_sequence_numbers, v9_sequence_numbers, ipfix_sequence_numbers,
                   pending, results, packets, sent_log, tick_log>>
    /\ error' = "generation"
    /\ UNCHANGED <<args, faulty, destination, datagrams, capture>>
    /\ UNCHANGED <<call, ret, closes, opens, binds>>

\* the sequence store after the results, taken in the given order, are applied
RECURSIVE UpdateStore(_, _, _, _)
UpdateStore(store, kind, order, k) ==
    IF k > Len(order) THEN store
    ELSE LET id == order[k]
         IN UpdateStore(IF id.kind = kind
                        THEN Insert(store, IF kind = "V5" THEN <<id.a, id.b>> ELSE id.a,
                                    results[id].next_seq)
                        ELSE store,
                        kind, order, k + 1)

\* merge of the results, in the iteration order of the group map
Merge ==
    /\ pc = "generate"
    /\ pending = {}
    /\ \A id \in DOMAIN results : results[id].ok
    /\ \E order \in Perms(DOMAIN results) :
          /\ packets' = Concat([k \in DOMAIN order |-> results[order[k]].packets])
          /\ v5_sequence_numbers' = UpdateStore(v5_sequence_numbers, "V5", order, 1)
          /\ v9_sequence_numbers' = UpdateStore(v9_sequence_numbers, "V9", order, 1)
          /\ ipfix_sequence_numbers' = UpdateStore(ipfix_sequence_numbers, "IPFix", order, 1)
    /\ results' = EmptyMap
    /\ pc' = "output"
    /\ UNCHANGED <<config, interval_secs, iteration, shutdown, now, lag,
                   last_template_send, send_templates, sleep_start,
                   pending, sent_log, tick_log>>
    /\ UNCHANGED <<args, faulty, destination, datagrams, capture, error>>
    /\ UNCHANGED <<call, ret, closes, opens, binds>>

\* the packets of the tick are handed to the sink, in order; an error of
\* the sink ends the process
Output ==
    /\ pc = "output"
    /\ \E fails_at \in (IF faulty THEN 0..Len(packets) ELSE {0}) :
          LET r == IF args.output
                   THEN write_packets_to_pcap(packets, destination, fails_at)
                   ELSE send_udp(packets, destination, fails_at)
          IN /\ datagrams' = IF args.output THEN datagrams ELSE r.out
             /\ capture' = IF args.output THEN write_packet(capture, r.out) ELSE capture
             /\ IF r.ok
                THEN /\ sent_log' = [id \in DOMAIN sent_log |->
                                       sent_log[id] \o
                                       SelectSeq([k \in DOMAIN packets |->
                                                     [pkt |-> packets[k], tick |-> iteration]],
                                                 LAMBDA e : IdOfPacket(e.pkt) = id)]
                     /\ tick_log' = Append(tick_log, send_templates)
                     /\ iteration' = iteration + 1
                     /\ sleep_start' = now
                     /\ packets' = <<>>
                     /\ pc' = "sleep"
                     /\ error' = error
                ELSE /\ pc' = "failed"
                     /\ error' = r.err
                     /\ UNCHANGED <<sent_log, tick_log, iteration, sleep_start, packets>>
    /\ UNCHANGED <<config, interval_secs, shutdown, now, lag, last_template_send,
                   send_templates, v5_sequence_numbers, v9_sequence_numbers,
                   ipfix_sequence_numbers, pending, results>>
    /\ UNCHANGED <<args, faulty, destination>>
    /\ UNCHANGED <<call, ret, closes, opens>>
    /\ binds' = IF args.output THEN binds ELSE binds + 1

\* a sleep that does not look at the shutdown flag
SleepQuantumDeaf ==
    /\ pc = "sleep"
    /\ IF now - sleep_start >= interval_secs
       THEN pc' = "top" /\ now' = now
       ELSE now < MaxTime /\ now' = now + 1 /\ pc' = pc
    /\ UNCHANGED <<config, interval_secs, iteration, shutdown, lag,
                   last_template_send, send_templates, sleep_start,
                   v5_sequence_numbers, v9_sequence_numbers, ipfix_sequence_numbers,
                   pending, results, packets, sent_log, tick_log>>
    /\ UNCHANGED <<args, faulty, destination, datagrams, capture, error>>
    /\ UNCHANGED <<call, ret, closes, opens, binds>>

\* one iteration of the sleep loop: leave when the interval has elapsed or
\* the shutdown flag is set, else sleep one quantum
SleepQuantum ==
    /\ pc = "sleep"
    /\ IF now - sleep_start >= interval_secs \/ shutdown
       THEN pc' = "top" /\ now' = now
       ELSE now < MaxTime /\ now' = now + 1 /\ pc' = pc
    /\ UNCHANGED <<config, interval_secs, iteration, shutdown, lag,
                   last_template_send, send_templates, sleep_start,
                   v5_sequence_numbers, v9_sequence_numbers, ipfix_sequence_numbers,
                   pending, results, packets, sent_log, tick_log>>
    /\ UNCHANGED <<args, faulty, destination, datagrams, capture, error>>
    /\ UNCHANGED <<call, ret, closes, opens, binds>>

\* time passes before the loop top is executed
Elapse ==
    /\ pc = "top"
    /\ lag < MaxLag
    /\ now < MaxTime
    /\ now' = now + 1
    /\ lag' = lag + 1
    /\ UNCHANGED <<config, interval_secs, pc, iteration, shutdown,
                   last_template_send, send_templates, sleep_start,
                   v5_sequence_numbers, v9_sequence_numbers, ipfix_sequence_numbers,
                   pending, results, packets, sent_log, tick_log>>
    /\ UNCHANGED <<args, faulty, destination, datagrams, capture, error>>
    /\ UNCHANGED <<call, ret, closes, opens, binds>>

\* the Ctrl+C handler
Signal ==
    /\ ~shutdown
    /\ pc \notin {"done", "failed"}
    /\ shutdown' = TRUE
    /\ UNCHANGED <<config, interval_secs, pc, iteration, now, lag,
                   last_template_send, send_templates, sleep_start,
                   v5_sequence_numbers, v9_sequence_numbers, ipfix_sequence_numbers,
                   pending, results, packets, sent_log, tick_log>>
    /\ UNCHANGED <<args, faulty, destination, datagrams, capture, error>>
    /\ UNCHANGED <<call, ret, closes, opens, binds>>

\* an exit that leaves the capture writer as it is
CloseSkipped ==
    /\ pc = "closing"
    /\ pc' = "done"
    /\ UNCHANGED <<config, interval_secs, iteration, shutdown, now, lag,
                   last_template_send, send_templates, sleep_start,
                   v5_sequence_numbers, v9_sequence_numbers, ipfix_sequence_numbers,
                   pending, results, packets, sent_log, tick_log>>
    /\ UNCHANGED <<args, faulty, destination, datagrams, capture, error>>
    /\ UNCHANGED <<call, ret, closes, opens, binds>>

\* after the loop: the capture writer, if there is one, is closed and main
\* returns Ok(())
Close ==
    /\ pc = "closing"
    /\ closes' = IF args.output THEN closes + 1 ELSE closes
    /\ pc' = "done"
    /\ UNCHANGED <<config, interval_secs, iteration, shutdown, now, lag,
                   last_template_send, send_templates, sleep_start,
                   v5_sequence_numbers, v9_sequence_numbers, ipfix_sequence_numbers,
                   pending, results, packets, sent_log, tick_log>>
    /\ UNCHANGED <<args, faulty, destination, datagrams, capture, error>>
    /\ UNCHANGED <<call, ret, opens, binds>>

Next ==
    \/ Startup
    \/ LoopTop
    \/ \E id \in pending : ProcessGroup(id)
    \/ CollectErr
    \/ Merge
    \/ Output
    \/ SleepQuantum
    \/ Elapse
    \/ Signal
    \/ Close

Spec == Init /\ [][Next]_vars

\* the runs in which the command line and the environment vary
LiveInit == Init /\ config.flows \in StartupFlows /\ interval_secs = 2

\* a group is waiting for a worker: the condition under which ProcessGroup
\* can take a step
GroupWaiting == pc = "generate" /\ pending # {}

\* the main thread is scheduled, the workers of the pool finish their groups
\* and the calls of the sinks return; the last conjunct is weak fairness of
\* ProcessGroup, written with its enabling condition
LiveSpec ==
    /\ LiveInit /\ [][Next]_vars
    /\ WF_vars(Startup) /\ WF_vars(LoopTop) /\ WF_vars(CollectErr) /\ WF_vars(Merge)
    /\ WF_vars(Output) /\ WF_vars(SleepQuantum) /\ WF_vars(Close)
    /\ ([]<>(~GroupWaiting) \/ []<><<\E id \in pending : ProcessGroup(id)>>_vars)

(* ---------------------------------------------------------------------- *)
(* Single-shot mode (main.rs run_once), for runs with --config             *)
(* ---------------------------------------------------------------------- *)
\* a run that builds its one tick without the templates
OnceStartWithoutTemplates ==
    /\ pc = "start"
    /\ IF ~validate_config(config).ok
       THEN /\ pc' = "failed" /\ error' = validate_config(config).err
            /\ UNCHANGED <<send_templates, pending, results>>
       ELSE /\ pc' = "generate" /\ error' = error
            /\ send_templates' = FALSE
            /\ pending' = DOMAIN Groups
            /\ results' = EmptyMap
    /\ UNCHANGED <<config, interval_secs, iteration, shutdown, now, lag,
                   last_template_send, sleep_start,
                   v5_sequence_numbers, v9_sequence_numbers, ipfix_sequence_numbers,
                   packets, sent_log, tick_log>>
    /\ UNCHANGED <<args, faulty, destination, datagrams, capture>>
    /\ UNCHANGED <<call, ret, closes, opens, binds>>

\* run_once up to the call of generate_packets_from_config: the configuration
\* is validated, the three stores are new and empty, the templates are always
\* sent
OnceStart ==
    /\ pc = "start"
    /\ IF ~validate_config(config).ok
       THEN /\ pc' = "failed" /\ error' = validate_config(config).err
            /\ UNCHANGED <<send_templates, pending, results>>
       ELSE /\ pc' = "generate" /\ error' = error
            /\ send_templates' = TRUE
            /\ pending' = DOMAIN Groups
            /\ results' = EmptyMap
    /\ UNCHANGED <<config, interval_secs, iteration, shutdown, now, lag,
                   last_template_send, sleep_start,
                   v5_sequence_numbers, v9_sequence_numbers, ipfix_sequence_numbers,
                   packets, sent_log, tick_log>>
    /\ UNCHANGED <<args, faulty, destination, datagrams, capture>>
    /\ UNCHANGED <<call, ret, closes, opens, binds>>

\* run_once after the build: the destination is parsed, then the packets go
\* to a capture file created for them (write_to_file with first_write) or to
\* send_udp, and run_once returns
OnceOutput ==
    /\ pc = "output"
    /\ \E created \in (IF faulty /\ args.output THEN BOOLEAN ELSE {TRUE}),
          fails_at \in (IF faulty THEN 0..Len(packets) ELSE {0}) :
          LET dest == parse_destination(args).val
              r == IF args.output
                   THEN write_packets_to_pcap(packets, dest, fails_at)
                   ELSE send_udp(packets, dest, fails_at)
          IN IF ~parse_destination(args).some
             THEN /\ pc' = "failed" /\ error' = "invalid_destination"
                  /\ UNCHANGED <<destination, datagrams, capture, opens, binds,
                                 sent_log, tick_log>>
             ELSE IF ~created
             THEN /\ pc' = "failed" /\ error' = "io"
                  /\ destination' = dest
                  /\ UNCHANGED <<datagrams, capture, opens, binds, sent_log, tick_log>>
             ELSE /\ destination' = dest
                  /\ opens' = IF args.output THEN opens + 1 ELSE opens
                  /\ binds' = IF args.output THEN binds ELSE binds + 1
                  /\ datagrams' = IF args.output THEN datagrams ELSE r.out
                  /\ capture' = IF args.output THEN r.out ELSE capture
                  /\ IF r.ok
                     THEN /\ sent_log' = [id \in DOMAIN sent_log |->
                                            sent_log[id] \o
                                            SelectSeq([k \in DOMAIN packets |->
                                                          [pkt |-> packets[k], tick |-> iteration]],
                                                      LAMBDA e : IdOfPacket(e.pkt) = id)]
                          /\ tick_log' = Append(tick_log, send_templates)
                          /\ pc' = "done"
                          /\ error' = error
                     ELSE /\ pc' = "failed"
                          /\ error' = r.err
                          /\ UNCHANGED <<sent_log, tick_log>>
    /\ UNCHANGED <<config, interval_secs, iteration, shutdown, now, lag,
                   last_template_send, send_templates, sleep_start,
                   v5_sequence_numbers, v9_sequence_numbers, ipfix_sequence_numbers,
                   pending, results, packets>>
    /\ UNCHANGED <<args, faulty>>
    /\ UNCHANGED <<call, ret, closes>>

OnceNext ==
    \/ OnceStart
    \/ \E id \in pending : ProcessGroup(id)
    \/ CollectErr
    \/ Merge
    \/ OnceOutput

\* the runs with --once: --interval cannot be given with it
OnceInit == Init /\ interval_secs = 2

OnceSpec == OnceInit /\ [][OnceNext]_vars

TypeOK ==
    /\ pc \in {"start", "top", "generate", "output", "sleep", "closing", "done", "failed"}
    /\ error \in {"none", "validation", "invalid_destination", "io", "generation",
                  "network"}
    /\ pc = "failed" <=> error # "none"
    /\ iteration \in 1..(MaxTicks + 1)
    /\ now \in 0..MaxTime


(* ---------------------------------------------------------------------- *)
(* The builders and the framer as functions: one call at a time, on inputs *)
(* drawn from the sets below                                               *)
(* ---------------------------------------------------------------------- *)
\* declared field lengths: the four integer widths and one that is none of them
FieldLengths == {1, 2, 3, 4, 8}

\* values of record keys
Values ==
    { Str(<<10, 0, 0, 1>>), Str(<<192, 168, 1, 10>>), Str(<<10, 0, 0>>),
      Str(<<256, 0, 0, 1>>), Str(<<-1>>),
      PosInt(0), PosInt(80), PosInt(258), PosInt(70000), PosInt(16909060),
      NegInt(-1), Float, Null, Bool }

\* records of a data flowset, over the key names of an address and of a port
WireRecords(addr_key, port_key) ==
    { Mapping((addr_key :> Str(<<192, 168, 1, 10>>)) @@ (port_key :> PosInt(443))),
      Mapping((addr_key :> PosInt(16909060)) @@ (port_key :> PosInt(70000))),
      Mapping((addr_key :> Str(<<10, 0, 0, 1>>)) @@ (port_key :> Str(<<10, 0, 0, 1>>))),
      Mapping(addr_key :> Str(<<-1>>)),
      NoMapping }

\* record lists of a data flowset
WireRecordLists(addr_key, port_key) ==
    UNION { [1..n -> WireRecords(addr_key, port_key)] : n \in 0..MaxRecords }

\* field lists of a template over the names of an address and of a port, with
\* one list that holds an unregistered name and one whose flowset exceeds u16
WireFieldLists(addr_name, port_name) ==
    LET fields == { Field(name, len) : name \in {addr_name, port_name}, len \in FieldLengths }
    IN UNION { [1..n -> fields] : n \in 1..2 }
       \cup { <<Field(addr_name, 4), Field("NO_SUCH_FIELD", 2)>>,
              <<Field(addr_name, 4), Field(port_name, U16_MAX)>>,
              <<Field(port_name, 65524)>> }

\* template lists of a template message
WireTemplateLists(addr_name, port_name) ==
    LET templates ==
            { Template(256, <<Field(addr_name, 4), Field(port_name, 2)>>),
              Template(257, <<Field(port_name, 3)>>),
              Template(258, <<>>),
              Template(259, <<Field("NO_SUCH_FIELD", 2)>>) }
    IN UNION { [1..n -> templates] : n \in 1..2 }

\* header times and sequence numbers of a message
WireSequences == {0, 700}
WireClock == [sys_up_time |-> 360000, unix_secs |-> 1700000000]

\* v5 and v7 flowsets
V5WireFlowSets ==
    { [src_addr |-> <<192, 168, 1, 10>>, dst_addr |-> <<10, 0, 0, 50>>,
       next_hop |-> <<192, 168, 1, 1>>, input |-> 1, output |-> 2, d_pkts |-> 100,
       d_octets |-> 65000, first |-> 350000, last |-> 360000, src_port |-> 54321,
       dst_port |-> 443, tcp_flags |-> 24, protocol |-> 6, tos |-> 0,
       src_as |-> 65001, dst_as |-> 65002, src_mask |-> 24, dst_mask |-> 16],
      [src_addr |-> <<10, 1, 1, 5>>, dst_addr |-> <<172, 16, 0, 100>>,
       next_hop |-> <<10, 1, 1, 1>>, input |-> 65535, output |-> 0, d_pkts |-> 250,
       d_octets |-> 2000000000, first |-> 0, last |-> 1, src_port |-> 12345,
       dst_port |-> 80, tcp_flags |-> 2, protocol |-> 17, tos |-> 255,
       src_as |-> 64512, dst_as |-> 64513, src_mask |-> 8, dst_mask |-> 32] }
V7WireFlowSets ==
    { [flags |-> fl, flags2 |-> 513, router_src |-> <<10, 1, 1, 254>>] @@ fs :
         fs \in V5WireFlowSets, fl \in {0, 3} }

V5WireHeaders ==
    { NoV5Header,
      V5HeaderAll(SomeOpt(1600000000), SomeOpt(5), SomeOpt(1000), SomeOpt(7), SomeOpt(1),
                  SomeOpt(2), SomeOpt(258)),
      V5Header(NoneOpt, SomeOpt(3), NoneOpt) }
V7WireHeaders ==
    { NoV7Header,
      V7HeaderAll(SomeOpt(1600000000), SomeOpt(5), SomeOpt(1000), SomeOpt(7), SomeOpt(9)),
      V7Header(NoneOpt) }

V5WireConfigs ==
    { Flow("v5", h, fl) : h \in V5WireHeaders,
                          fl \in UNION { [1..n -> V5WireFlowSets] : n \in 0..MaxRecords } }
V7WireConfigs ==
    { Flow("v7", h, fl) : h \in V7WireHeaders,
                          fl \in UNION { [1..n -> V7WireFlowSets] : n \in 0..MaxRecords } }

\* destinations (--dest) and NetFlow buffers handed to the framer: the longest
\* buffer that fits one IPv4 datagram and the first that does not
WireDestinations ==
    { SocketAddrV4(<<192, 0, 2, 7>>, 9995), SocketAddrV4(<<127, 0, 0, 1>>, 2055),
      SocketAddrV4(<<255, 255, 255, 255>>, 65535),
      SocketAddrV6(<<0, 0, 0, 0, 0, 0, 0, 1>>, 2055) }
WirePayloadLengths == {0, 1, 24, 72, 129, 65507, 65508}
WirePayload(n) == [i \in 1..n |-> (i * 7) % 256]

\* the program of the first part is not running while a function is applied
MainIdle ==
    /\ config = [flows |-> <<>>, destination |-> DefaultDestination]
    /\ interval_secs = 2
    /\ pc = "done"
    /\ iteration = 1
    /\ shutdown = FALSE
    /\ now = 0
    /\ lag = 0
    /\ last_template_send = 0
    /\ send_templates = FALSE
    /\ sleep_start = 0
    /\ v5_sequence_numbers = EmptyMap
    /\ v9_sequence_numbers = EmptyMap
    /\ ipfix_sequence_numbers = EmptyMap
    /\ pending = {}
    /\ results = EmptyMap
    /\ packets = <<>>
    /\ sent_log = EmptyMap
    /\ tick_log = <<>>
    /\ args = DefaultArgs
    /\ faulty = FALSE
    /\ destination = NoDestination
    /\ datagrams = <<>>
    /\ capture = <<>>
    /\ error = "none"
    /\ closes = 0
    /\ opens = 0
    /\ binds = 0

WireInit == MainIdle /\ call = NoCall /\ ret = NoRet

CallSerializeFieldValue ==
    /\ call.fn = "none"
    /\ \E value \in Values, field_length \in FieldLengths :
          /\ call' = [fn |-> "serialize_field_value", value |-> value,
                      field_length |-> field_length]
          /\ ret' = OkBytes(serialize_field_value(value, field_length))
    /\ UNCHANGED main_vars

CallBuildV9Data ==
    /\ call.fn = "none"
    /\ \E fields \in WireFieldLists("IPV4_SRC_ADDR", "L4_SRC_PORT"),
          records \in WireRecordLists("src_addr", "src_port"),
          sequence_number \in WireSequences :
          /\ call' = [fn |-> "v9_build_data_packet", version |-> 9,
                      template_fields |-> fields, records |-> records,
                      sequence_number |-> sequence_number]
          /\ ret' = v9_build_data_packet_bytes(WireClock.sys_up_time, WireClock.unix_secs,
                        sequence_number, 1, 256, fields, records)
    /\ UNCHANGED main_vars

CallBuildIPFixData ==
    /\ call.fn = "none"
    /\ \E fields \in WireFieldLists("sourceIPv4Address", "sourceTransportPort"),
          records \in WireRecordLists("source_ipv4_address", "source_transport_port"),
          sequence_number \in WireSequences :
          /\ call' = [fn |-> "ipfix_build_data_packet", version |-> 10,
                      template_fields |-> fields, records |-> records,
                      sequence_number |-> sequence_number]
          /\ ret' = ipfix_build_data_packet_bytes(WireClock.unix_secs, sequence_number, 1, 256,
                        fields, records)
    /\ UNCHANGED main_vars

CallBuildV9Template ==
    /\ call.fn = "none"
    /\ \E templates \in WireTemplateLists("IPV4_SRC_ADDR", "L4_SRC_PORT"),
          sequence_number \in WireSequences :
          /\ call' = [fn |-> "v9_build_template_packet", version |-> 9,
                      templates |-> templates, sequence_number |-> sequence_number]
          /\ ret' = v9_build_template_packet_bytes(WireClock.sys_up_time, WireClock.unix_secs,
                        sequence_number, 1, templates)
    /\ UNCHANGED main_vars

CallBuildIPFixTemplate ==
    /\ call.fn = "none"
    /\ \E templates \in WireTemplateLists("sourceIPv4Address", "sourceTransportPort"),
          sequence_number \in WireSequences :
          /\ call' = [fn |-> "ipfix_build_template_packet", version |-> 10,
                      templates |-> templates, sequence_number |-> sequence_number]
          /\ ret' = ipfix_build_template_packet_bytes(WireClock.unix_secs, sequence_number, 1,
                        templates)
    /\ UNCHANGED main_vars

CallBuildV5 ==
    /\ call.fn = "none"
    /\ \E cfg \in V5WireConfigs :
          /\ call' = [fn |-> "build_v5_packet", config |-> cfg]
          /\ ret' = build_v5_packet_bytes(cfg, WireClock.unix_secs)
    /\ UNCHANGED main_vars

CallBuildV7 ==
    /\ call.fn = "none"
    /\ \E cfg \in V7WireConfigs :
          /\ call' = [fn |-> "build_v7_packet", config |-> cfg]
          /\ ret' = build_v7_packet_bytes(cfg, WireClock.unix_secs)
    /\ UNCHANGED main_vars

CallBuildUdpPacket ==
    /\ call.fn = "none"
    /\ \E dest \in WireDestinations, n \in WirePayloadLengths :
          /\ call' = [fn |-> "build_udp_packet", dest |-> dest, payload_len |-> n]
          /\ ret' = build_udp_packet(CaptureSrcIp, CaptureSrcPort, dest, WirePayload(n))
    /\ UNCHANGED main_vars

\* readings of the wall clock, in seconds
WallClocks == {1700000000, 1700000001}

\* entries with and without time stamps in the header
TimedEntries ==
    { Flow("v9", NoV9Header, <<Template(256, V9Fields), Data(256, 2)>>),
      Flow("v9", NoV9Header, <<Data(256, 1), Template(256, V9Fields), Data(256, 2)>>),
      Flow("v9", V9HeaderAll(SomeOpt(1000), SomeOpt(1600000000), NoneOpt, NoneOpt),
           <<Template(256, V9Fields), Template(257, V9Fields), Data(257, 1)>>),
      Flow("v9", V9HeaderAll(SomeOpt(1000), NoneOpt, NoneOpt, NoneOpt),
           <<Template(256, V9Fields), Data(256, 1)>>),
      Flow("v9", NoV9Header, <<Template(256, V9Unknown), Data(256, 1)>>),
      Flow("v9", NoV9Header, <<Template(256, V9Unknown), Data(256, 0)>>),
      Flow("v9", NoV9Header,
           <<Template(256, V9Unknown), Template(257, V9Fields), Data(257, 1)>>),
      Flow("ipfix", NoIPFixHeader,
           <<Template(256, IPFixUnknown), Template(257, IPFixFields), Data(257, 1)>>),
      Flow("ipfix", NoIPFixHeader, <<Template(256, IPFixFields), Data(256, 2)>>),
      Flow("ipfix", NoIPFixHeader, <<Template(2, IPFixFields), Data(2, 1)>>),
      Flow("ipfix", IPFixHeaderAll(SomeOpt(1600000000), SomeOpt(SeqMax), NoneOpt),
           <<Data(256, 1), Template(256, IPFixFields), Data(256, 2)>>),
      Flow("ipfix", IPFixHeaderAll(NoneOpt, SomeOpt(SeqMax - 1), NoneOpt),
           <<Template(256, IPFixFields), Data(256, 1)>>),
      Flow("v5", NoV5Header, <<1, 2>>),
      Flow("v5", V5HeaderAll(SomeOpt(1600000000), SomeOpt(5), SomeOpt(1000), NoneOpt,
                             NoneOpt, NoneOpt, NoneOpt), <<1>>),
      Flow("v7", NoV7Header, <<1>>),
      Flow("v7", V7HeaderAll(SomeOpt(1600000000), NoneOpt, NoneOpt, NoneOpt, NoneOpt),
           <<1, 2>>) }

\* the buckets of configurations of one or two of these entries
TimedGroups ==
    UNION { { group_flows_by_exporter(flows)[id] :
                id \in DOMAIN group_flows_by_exporter(flows) } :
            flows \in UNION { [1..n -> TimedEntries] : n \in FlowCounts } }

\* sequence numbers found in the store, up to the largest u32
StoredSequences == {0, SeqMax - 1, SeqMax}

\* the clock does not go back between the builds of a group
ClockReadings(n) ==
    { c \in [1..n -> WallClocks] : \A i, j \in 1..n : i <= j => c[i] <= c[j] }

\* what two runs return, or the panic that ends both; ok and err are those
\* of the first run, and no single buffer is returned
TwoRuns(panics, first, second) ==
    IF panics
    THEN [ok |-> FALSE, err |-> "panic", bytes |-> <<>>,
          first |-> Err("panic"), second |-> Err("panic")]
    ELSE [ok |-> first.ok, err |-> first.err, bytes |-> <<>>,
          first |-> first, second |-> second]

\* process_exporter_group run twice on the same group, from the same stored
\* sequence and with the same template decision, at two times, by a build
\* with or without overflow checks; "panic" is the process aborting, which
\* is no Result
CallProcessExporterGroup ==
    /\ call.fn = "none"
    /\ \E flows \in TimedGroups, initial_sequence \in StoredSequences, st \in BOOLEAN :
       \E clock \in ClockReadings(Len(flows)), again \in ClockReadings(Len(flows)) :
       \E overflow_checks \in BOOLEAN :
          /\ call' = [fn |-> "process_exporter_group", flows |-> flows,
                      initial_sequence |-> initial_sequence, send_templates |-> st,
                      clock |-> clock, again |-> again,
                      overflow_checks |-> overflow_checks]
          /\ ret' = TwoRuns(overflow_checks
                               /\ process_exporter_group_overflows(flows, initial_sequence, st),
                            process_exporter_group_at(flows, initial_sequence, st, clock),
                            process_exporter_group_at(flows, initial_sequence, st, again))
    /\ UNCHANGED main_vars

\* the call returns; the next one starts afresh
Return ==
    /\ call.fn # "none"
    /\ call' = NoCall
    /\ ret' = NoRet
    /\ UNCHANGED main_vars

WireNext ==
    \/ CallSerializeFieldValue
    \/ CallBuildV9Data
    \/ CallBuildIPFixData
    \/ CallBuildV9Template
    \/ CallBuildIPFixTemplate
    \/ CallBuildV5
    \/ CallBuildV7
    \/ CallBuildUdpPacket
    \/ CallProcessExporterGroup
    \/ Return

WireSpec == WireInit /\ [][WireNext]_vars

(* ---------------------------------------------------------------------- *)
(* Properties                                                              *)
(* ---------------------------------------------------------------------- *)
\* the data messages an identity has sent so far, in order
DataLog(id) == SelectSeq(sent_log[id], LAMBDA e : e.pkt.kind = "data")

\* the stored sequence of an identity, 0 when absent
StoreOf(id) == initial_seq(id)

RECURSIVE SumRecords(_)
SumRecords(log) ==
    IF log = <<>> THEN 0
    ELSE (IF Head(log).pkt.kind = "template" THEN 0 ELSE Head(log).pkt.nrec)
         + SumRecords(Tail(log))

\* C1 (as amended): for every v9 source_id, over all ticks and all entries
\* sharing it, each data message's sequence number equals the previous data
\* message's plus that message's record count; the numbers never decrease
\* and strictly increase past every message that carries at least one record.
C1_V9DataSequence ==
    \A id \in DOMAIN sent_log : id.kind = "V9" =>
        LET d == DataLog(id)
        IN \A k \in 1..(Len(d) - 1) :
              /\ d[k + 1].pkt.sequence_number = d[k].pkt.sequence_number + d[k].pkt.nrec
              /\ d[k + 1].pkt.sequence_number >= d[k].pkt.sequence_number
              /\ d[k].pkt.nrec > 0 =>
                    d[k + 1].pkt.sequence_number > d[k].pkt.sequence_number

\* C1 witness: a source_id shared by two entries has sent data messages of
\* several records in two ticks
C1_Witness ==
    \E id \in DOMAIN sent_log :
        /\ id.kind = "V9"
        /\ LET d == DataLog(id)
           IN \E k \in 1..(Len(d) - 1) : \E j \in 1..(Len(d) - 1) :
                 /\ d[k].tick # d[k + 1].tick
                 /\ d[j].tick = d[j + 1].tick /\ d[j].pkt.entry # d[j + 1].pkt.entry
                 /\ d[j].pkt.nrec > 1

\* C1 as stated: the sequence numbers of successive data messages are
\* strictly increasing, with increments equal to the record counts
C1_Original ==
    \A id \in DOMAIN sent_log : id.kind = "V9" =>
        LET d == DataLog(id)
        IN \A k \in 1..(Len(d) - 1) :
              /\ d[k + 1].pkt.sequence_number > d[k].pkt.sequence_number
              /\ d[k + 1].pkt.sequence_number = d[k].pkt.sequence_number + d[k].pkt.nrec

\* C2: a v9 template message carries the sequence number of the data message
\* that follows it and does not advance the sequence: built from the same
\* starting sequence, an entry returns the same next sequence with and
\* without templates.
C2_TemplateKeepsSequence ==
    /\ \A i \in DOMAIN config.flows : config.flows[i].version = "v9" =>
          LET e == config.flows[i]
              S == StoreOf(extract_exporter_id(e, i - 1))
              a == build_v9_packets(e, SomeOpt(S), TRUE)
              b == build_v9_packets(e, SomeOpt(S), FALSE)
          IN /\ a.ok /\ b.ok => a.next_seq = b.next_seq
             /\ a.ok => \A k \in DOMAIN a.packets :
                   a.packets[k].kind = "template" =>
                      /\ a.packets[k].sequence_number = S
                      /\ (k + 1) \in DOMAIN a.packets =>
                            a.packets[k + 1].sequence_number = S
    /\ \A id \in DOMAIN sent_log : id.kind = "V9" =>
          \A k \in 1..(Len(sent_log[id]) - 1) :
             LET m == sent_log[id][k]
                 n == sent_log[id][k + 1]
             IN m.pkt.kind = "template" /\ n.tick = m.tick /\ n.pkt.entry = m.pkt.entry
                   => n.pkt.sequence_number = m.pkt.sequence_number

\* C2 witness: a template message was sent with a sequence above 0, followed
\* by the data message of the same entry
C2_Witness ==
    \E id \in DOMAIN sent_log :
        /\ id.kind = "V9"
        /\ \E k \in 1..(Len(sent_log[id]) - 1) :
              /\ sent_log[id][k].pkt.kind = "template"
              /\ sent_log[id][k].pkt.sequence_number > 0
              /\ sent_log[id][k + 1].pkt.kind = "data"
              /\ sent_log[id][k + 1].tick = sent_log[id][k].tick

\* C3: for every IPFIX observation_domain_id the sequence advances exactly by
\* the data records emitted: the first message carries 0, each message
\* carries the previous one's number plus the records of the previous one (a
\* template message has none), and after a tick the store holds the number
\* of data records sent so far.
C3_IPFixSequenceCountsRecords ==
    \A id \in DOMAIN sent_log : id.kind = "IPFix" =>
        LET log == sent_log[id]
        IN /\ log # <<>> => log[1].pkt.sequence_number = 0
           /\ \A k \in 1..(Len(log) - 1) :
                 log[k + 1].pkt.sequence_number =
                    log[k].pkt.sequence_number
                    + (IF log[k].pkt.kind = "data" THEN log[k].pkt.nrec ELSE 0)
           /\ pc \in {"sleep", "top", "closing", "done"} => StoreOf(id) = SumRecords(log)

\* C4: every v5 entry built in a tick gives exactly one buffer whose
\* flow_sequence is the sequence held for its (engine_type, engine_id), 0 on
\* first encounter, and the held sequence then grows by the entry's flowsets.
C4_V5HeaderCarriesStoredSequence ==
    \A id \in DOMAIN sent_log : id.kind = "V5" =>
        LET log == sent_log[id]
        IN /\ log # <<>> => log[1].pkt.sequence_number = 0
           /\ \A k \in 1..(Len(log) - 1) :
                 log[k + 1].pkt.sequence_number =
                    log[k].pkt.sequence_number + log[k].pkt.count
           /\ \A k \in DOMAIN log :
                 log[k].pkt.count = Len(config.flows[log[k].pkt.entry].flowsets)
           /\ pc \in {"sleep", "top", "closing", "done"} => StoreOf(id) = SumRecords(log)

\* the flow_sequence a v7 entry asks for in its header, 0 when it has none
V7ConfiguredSequence(flow) ==
    IF flow.header.some /\ flow.header.val.flow_sequence.some
    THEN flow.header.val.flow_sequence.val ELSE 0

\* the keys the sequence stores may hold: the v5, v9 and IPFIX identities
StoreKeys(kind) ==
    {IF kind = "V5" THEN <<id.a, id.b>> ELSE id.a : id \in {g \in DOMAIN Groups : g.kind = kind}}

\* C5: v7 is not sequence-tracked: every v7 entry is a group of its own, the
\* flow_sequence it emits is the header override, else 0, on every tick
\* whatever the stores hold, and the stores hold v5, v9 and IPFIX identities
\* only.
C5_V7NotTracked ==
    /\ \A id \in DOMAIN Groups : id.kind = "V7" =>
          /\ Len(Groups[id]) = 1
          /\ Groups[id][1].index = id.a + 1
          /\ \A k \in DOMAIN sent_log[id] :
                /\ sent_log[id][k].pkt.entry = id.a + 1
                /\ sent_log[id][k].pkt.sequence_number =
                      V7ConfiguredSequence(config.flows[id.a + 1])
          /\ id \in DOMAIN results /\ results[id].ok =>
                results[id].next_seq = 0
    /\ DOMAIN v5_sequence_numbers \subseteq StoreKeys("V5")
    /\ DOMAIN v9_sequence_numbers \subseteq StoreKeys("V9")
    /\ DOMAIN ipfix_sequence_numbers \subseteq StoreKeys("IPFix")
    /\ (\A i \in DOMAIN config.flows : config.flows[i].version = "v7") =>
          /\ v5_sequence_numbers = EmptyMap
          /\ v9_sequence_numbers = EmptyMap
          /\ ipfix_sequence_numbers = EmptyMap

\* C5 witness: two v7 entries, one of them with a header override, have each
\* sent a packet in two ticks
C5_Witness ==
    /\ Len(config.flows) > 1
    /\ \A i \in DOMAIN config.flows : config.flows[i].version = "v7"
    /\ \E i \in DOMAIN config.flows : V7ConfiguredSequence(config.flows[i]) > 0
    /\ \A id \in DOMAIN sent_log : Len(sent_log[id]) > 1

\* C6: after a successful tick the store holds, for every v5, v9 and IPFIX
\* identity of the configuration, the records exported for it so far, which
\* is its value before the tick (0 when absent) plus the records of the tick.
C6_StoreCountsRecordsPerIdentity ==
    pc \in {"sleep", "top", "closing", "done"} =>
        \A id \in DOMAIN sent_log : id.kind # "V7" =>
            StoreOf(id) = SumRecords(sent_log[id])

\* the flowsets of its entry a message was built from
FlowsetsOf(p) ==
    IF p.kind = "template"
    THEN {i \in DOMAIN config.flows[p.entry].flowsets :
             IsTemplate(config.flows[p.entry].flowsets[i])}
    ELSE IF p.kind = "data" THEN {p.fs}
    ELSE DOMAIN config.flows[p.entry].flowsets

\* C7 (as amended): within one exporter identity the packets of a tick come
\* in the input order of the flow entries and, inside each entry, the
\* template message first and then the data messages in the configuration
\* order of the data flowsets.
C7_PacketOrder ==
    \A id \in DOMAIN sent_log :
        \A k \in 1..(Len(sent_log[id]) - 1) :
            LET m == sent_log[id][k]
                n == sent_log[id][k + 1]
            IN m.tick = n.tick =>
                  \/ m.pkt.entry < n.pkt.entry
                  \/ /\ m.pkt.entry = n.pkt.entry
                     /\ \/ m.pkt.kind = "template" /\ n.pkt.kind = "data"
                        \/ m.pkt.kind = "data" /\ n.pkt.kind = "data" /\ m.pkt.fs < n.pkt.fs

\* C7 witness: in one tick an identity shared by two entries has sent a
\* template message and data messages of both entries
C7_Witness ==
    \E id \in DOMAIN sent_log :
        \E k \in 1..(Len(sent_log[id]) - 2) :
            LET m == sent_log[id][k]
                n == sent_log[id][k + 1]
                o == sent_log[id][k + 2]
            IN /\ m.tick = n.tick /\ n.tick = o.tick
               /\ m.pkt.kind = "data" /\ n.pkt.kind = "template" /\ o.pkt.kind = "data"
               /\ m.pkt.entry < n.pkt.entry

\* C7 as stated: the packets of a tick follow the input order of the entries
\* and, inside each entry, the order of its flowsets in the configuration
C7_Original ==
    \A id \in DOMAIN sent_log :
        \A k \in 1..(Len(sent_log[id]) - 1) :
            LET m == sent_log[id][k]
                n == sent_log[id][k + 1]
            IN m.tick = n.tick =>
                  \/ m.pkt.entry < n.pkt.entry
                  \/ /\ m.pkt.entry = n.pkt.entry
                     /\ \A i \in FlowsetsOf(m.pkt) : \A j \in FlowsetsOf(n.pkt) : i < j

\* C8 (as amended): on every tick send_templates is true exactly when it is
\* the first tick or at least TEMPLATE_REFRESH_INTERVAL has elapsed since
\* last_template_send; on every later tick where it is true
\* last_template_send is reset to the current time, and on the first tick,
\* as on every tick where it is false, last_template_send keeps its value
\* (on the first tick: the time taken at startup).
C8_TemplateRefreshClock ==
    [][pc = "top" /\ pc' = "generate" =>
          /\ send_templates' = (iteration = 1 \/ now - last_template_send >= 30)
          /\ send_templates' /\ iteration > 1 => last_template_send' = now
          /\ iteration = 1 \/ ~send_templates' => last_template_send' = last_template_send
      ]_vars

\* C8 witness: a tick after the first has refreshed the templates, 30 s or
\* more after startup, and reset last_template_send
C8_Witness ==
    /\ pc = "generate"
    /\ iteration > 1
    /\ send_templates
    /\ last_template_send = now
    /\ now >= 30

\* C8 as stated: on every tick where send_templates is true, the first tick
\* included, last_template_send is reset to the current time
C8_Original ==
    [][pc = "top" /\ pc' = "generate" =>
          /\ send_templates' = (iteration = 1 \/ now - last_template_send >= 30)
          /\ send_templates' => last_template_send' = now
      ]_vars

\* the data flowsets of a flow entry
DataFlowsets(flow) == {i \in DOMAIN flow.flowsets : IsData(flow.flowsets[i])}

\* C9: for every v9 and IPFIX entry a template message is sent in a tick
\* only when send_templates is true for that tick, and one data message per
\* data flowset is sent on every tick.
C9_TemplatesOnlyOnRefresh ==
    \A id \in DOMAIN sent_log : id.kind \in {"V9", "IPFix"} =>
        /\ \A k \in DOMAIN sent_log[id] :
              sent_log[id][k].pkt.kind = "template" => tick_log[sent_log[id][k].tick]
        /\ \A t \in DOMAIN tick_log : \A g \in DOMAIN Groups[id] :
              \A i \in DataFlowsets(Groups[id][g].flow) :
                  Cardinality({k \in DOMAIN sent_log[id] :
                                  /\ sent_log[id][k].tick = t
                                  /\ sent_log[id][k].pkt.kind = "data"
                                  /\ sent_log[id][k].pkt.entry = Groups[id][g].index
                                  /\ sent_log[id][k].pkt.fs = i}) = 1

\* a data flowset of the entry names a template the entry does not define
UndefinedReference(flow) ==
    \E i \in DataFlowsets(flow) :
        \A j \in DOMAIN flow.flowsets :
            IsTemplate(flow.flowsets[j]) =>
                flow.flowsets[j].template_id # flow.flowsets[i].template_id

\* the result of building a template-based entry from the stored sequence
BuildEntry(i, templates_on) ==
    IF config.flows[i].version = "v9"
    THEN build_v9_packets(config.flows[i],
                          SomeOpt(StoreOf(extract_exporter_id(config.flows[i], i - 1))),
                          templates_on)
    ELSE build_ipfix_packets(config.flows[i])

DataMessageBuilt ==
    call.fn \in {"v9_build_data_packet", "ipfix_build_data_packet"} /\ ret.ok

\* length of the message header before the set of a data message
HeaderLen == IF call.version = 9 THEN 20 ELSE 16

\* the bytes the records of the call serialize to
RecordPayload == records_bytes(call.records, call.template_fields, call.version).bytes

\* number of bytes that follow the record payload in the set
PadLen == Len(ret.bytes) - HeaderLen - 4 - Len(RecordPayload)

\* C11: in every v9 and IPFIX data message the back-patched set length is the
\* number of bytes from the set-id field to the end of the set, it is a
\* multiple of 4, and the set ends with the minimal number (0 to 3) of zero
\* bytes that makes it so: a payload of length 2 mod 4 gets exactly 2 of them
C11_DataSetLengthAndPadding ==
    DataMessageBuilt =>
        /\ u16_at(ret.bytes, HeaderLen + 2) = Len(ret.bytes) - HeaderLen
        /\ u16_at(ret.bytes, HeaderLen + 2) % 4 = 0
        /\ SubSeq(ret.bytes, HeaderLen + 5, HeaderLen + 4 + Len(RecordPayload))
              = RecordPayload
        /\ PadLen \in 0..3
        /\ \A k \in 0..3 : (4 + Len(RecordPayload) + k) % 4 = 0 => PadLen <= k
        /\ \A i \in 1..PadLen : ret.bytes[Len(ret.bytes) + 1 - i] = 0
        /\ (Len(RecordPayload) % 4 = 2 => PadLen = 2)

\* a v9 data message with a single record whose payload is 2 bytes long and
\* is followed by 2 bytes of padding
C11_Witness ==
    /\ DataMessageBuilt
    /\ call.version = 9
    /\ Len(call.records) = 1
    /\ Len(RecordPayload) = 2
    /\ Len(ret.bytes) = 28

\* the lengths of the sets of a message, read from the bytes: the set at
\* offset pos, then the set that starts where it ends
RECURSIVE SetLengths(_, _)
SetLengths(bytes, pos) ==
    IF pos + 4 > Len(bytes) \/ u16_at(bytes, pos + 2) < 4 THEN <<>>
    ELSE <<u16_at(bytes, pos + 2)>> \o SetLengths(bytes, pos + u16_at(bytes, pos + 2))

\* offset of the n-th set of a message whose first set is at offset start
RECURSIVE SetOffset(_, _, _)
SetOffset(bytes, start, n) ==
    IF n = 1 THEN start
    ELSE SetOffset(bytes, start + u16_at(bytes, start + 2), n - 1)

RECURSIVE Sum(_)
Sum(s) == IF s = <<>> THEN 0 ELSE Head(s) + Sum(Tail(s))

\* a template message was built
TemplateMessageBuilt ==
    call.fn \in {"v9_build_template_packet", "ipfix_build_template_packet"} /\ ret.ok

\* C12: the total-length field of every IPFIX message (template or data) is
\* the byte length of the message, which is 16 plus the back-patched lengths
\* of its sets; the length of every template flowset of a v9 or IPFIX template
\* message is the byte length of that flowset (4 bytes of set header, 4 of
\* template header, 4 per field)
C12_MessageAndTemplateSetLengths ==
    /\ (ret.ok /\ call.fn \in {"ipfix_build_template_packet", "ipfix_build_data_packet"}) =>
          /\ u16_at(ret.bytes, 2) = Len(ret.bytes)
          /\ Len(ret.bytes) = 16 + Sum(SetLengths(ret.bytes, 16))
    /\ TemplateMessageBuilt =>
          LET lens == SetLengths(ret.bytes, HeaderLen)
          IN /\ Len(lens) = Len(call.templates)
             /\ HeaderLen + Sum(lens) = Len(ret.bytes)
             /\ \A k \in DOMAIN call.templates :
                   LET at == SetOffset(ret.bytes, HeaderLen, k)
                   IN /\ u16_at(ret.bytes, at) = (IF call.version = 9 THEN 0 ELSE 2)
                      /\ u16_at(ret.bytes, at + 4) = call.templates[k].template_id
                      /\ u16_at(ret.bytes, at + 6) = Len(call.templates[k].fields)
                      /\ lens[k] = 8 + 4 * Len(call.templates[k].fields)

\* an IPFIX template message of two sets of different lengths
C12_Witness ==
    /\ TemplateMessageBuilt
    /\ call.version = 10
    /\ Len(call.templates) = 2
    /\ SetLengths(ret.bytes, 16) = <<16, 12>>
    /\ u16_at(ret.bytes, 2) = 44

\* the value encoder of section 4.5: the bytes it is to return
EncoderContract(value, field_length) ==
    IF value.tag = "String" /\ parse_Ipv4Addr(value.labels).some /\ field_length = 4
    THEN value.labels
    ELSE IF value.tag = "Number" /\ value.repr = "PosInt" /\ field_length \in {1, 2, 4, 8}
    THEN [i \in 1..field_length |->
             IF field_length - i >= 4 THEN 0
             ELSE (value.num \div (256 ^ (field_length - i))) % 256]
    ELSE [i \in 1..field_length |-> 0]

\* C13: for every value and every declared length L the value encoder returns
\* exactly L bytes: the big-endian encoding of v mod 2^(8L) for a non-negative
\* integer v and L in {1,2,4,8}; the four octets of a string parseable as IPv4
\* when L = 4 and L zero bytes when L # 4; L zero bytes for any other value
\* and for a number with L not in {1,2,4,8}
C13_EncoderReturnsDeclaredLength ==
    call.fn = "serialize_field_value" =>
        /\ Len(ret.bytes) = call.field_length
        /\ ret.bytes = EncoderContract(call.value, call.field_length)

\* a v5 or v7 packet was built
FixedPacketBuilt == call.fn \in {"build_v5_packet", "build_v7_packet"} /\ ret.ok
FixedVersion == IF call.fn = "build_v5_packet" THEN 5 ELSE 7
FixedRecordLen == IF call.fn = "build_v5_packet" THEN 48 ELSE 52

\* C14: after every successful v5 or v7 build with N flowsets bytes[0:2] hold
\* the version (5 or 7) big-endian, bytes[2:4] hold N, and the buffer is
\* 24 + 48 N bytes long for v5 and 24 + 52 N for v7
C14_FixedLayoutLength ==
    FixedPacketBuilt =>
        /\ Slice(ret.bytes, 0, 2) = <<0, FixedVersion>>
        /\ u16_at(ret.bytes, 2) = Len(call.config.flowsets)
        /\ Len(ret.bytes) = 24 + FixedRecordLen * Len(call.config.flowsets)

\* a v5 packet of two flowsets: 120 bytes
C14_Witness ==
    /\ FixedPacketBuilt
    /\ call.fn = "build_v5_packet"
    /\ Len(call.config.flowsets) = 2
    /\ Len(ret.bytes) = 120

\* the fixed layouts a decoder reads: the fields in wire order, each with its
\* width in bytes; an address is read as its four octets, padding is skipped
Num(name, width) == [name |-> name, width |-> width, kind |-> "int"]
Addr(name) == [name |-> name, width |-> 4, kind |-> "addr"]
Pad(width) == [name |-> "pad", width |-> width, kind |-> "pad"]
V5HeaderLayout ==
    <<Num("version", 2), Num("count", 2), Num("sys_up_time", 4), Num("unix_secs", 4),
      Num("unix_nsecs", 4), Num("flow_sequence", 4), Num("engine_type", 1),
      Num("engine_id", 1), Num("sampling_interval", 2)>>
V7HeaderLayout ==
    <<Num("version", 2), Num("count", 2), Num("sys_up_time", 4), Num("unix_secs", 4),
      Num("unix_nsecs", 4), Num("flow_sequence", 4), Num("reserved", 4)>>
V5RecordLayout ==
    <<Addr("src_addr"), Addr("dst_addr"), Addr("next_hop"), Num("input", 2),
      Num("output", 2), Num("d_pkts", 4), Num("d_octets", 4), Num("first", 4),
      Num("last", 4), Num("src_port", 2), Num("dst_port", 2), Pad(1),
      Num("tcp_flags", 1), Num("protocol", 1), Num("tos", 1), Num("src_as", 2),
      Num("dst_as", 2), Num("src_mask", 1), Num("dst_mask", 1), Pad(2)>>
V7RecordLayout ==
    <<Addr("src_addr"), Addr("dst_addr"), Addr("next_hop"), Num("input", 2),
      Num("output", 2), Num("d_pkts", 4), Num("d_octets", 4), Num("first", 4),
      Num("last", 4), Num("src_port", 2), Num("dst_port", 2), Num("flags", 1),
      Num("tcp_flags", 1), Num("protocol", 1), Num("tos", 1), Num("src_as", 2),
      Num("dst_as", 2), Num("src_mask", 1), Num("dst_mask", 1), Num("flags2", 2),
      Addr("router_src")>>

\* the number a big-endian byte string stands for
RECURSIVE BigEndian(_)
BigEndian(bytes) ==
    IF bytes = <<>> THEN 0
    ELSE BigEndian(SubSeq(bytes, 1, Len(bytes) - 1)) * 256 + bytes[Len(bytes)]

\* offset of the k-th field of a layout
RECURSIVE LayoutOffset(_, _)
LayoutOffset(layout, k) ==
    IF k = 1 THEN 0 ELSE LayoutOffset(layout, k - 1) + layout[k - 1].width

\* the fields of the structure laid out at offset pos of bytes, in wire order
Decode(bytes, pos, layout) ==
    [k \in DOMAIN layout |->
        LET raw == Slice(bytes, pos + LayoutOffset(layout, k),
                         pos + LayoutOffset(layout, k) + layout[k].width)
        IN IF layout[k].kind = "int" THEN [int |-> BigEndian(raw), addr |-> <<>>]
           ELSE [int |-> 0, addr |-> raw]]

\* the decoded field k of a structure agrees with the configured value v
Agrees(layout, decoded, k, v) ==
    CASE layout[k].kind = "int" -> decoded[k].int = v
      [] layout[k].kind = "addr" -> decoded[k].addr = v
      [] OTHER -> TRUE

FrameBuilt == call.fn = "build_udp_packet" /\ ret.ok

\* the end-around carry of a sum of at most 2^16 words of 16 bits
EndAroundCarry(sum) ==
    LET once == (sum % 65536) + (sum \div 65536)
    IN (once % 65536) + (once \div 65536)

\* C16: for every destination IPv4 address and payload length the framer
\* accepts, the ten 16-bit big-endian words of the 20-byte IPv4 header, the
\* stored checksum among them, sum to 0xFFFF with end-around carry
C16_Ipv4HeaderChecksum ==
    FrameBuilt =>
        LET words == [k \in 1..10 |-> u16_at(ret.bytes, 14 + 2 * (k - 1))]
        IN EndAroundCarry(Sum(words)) = 65535

\* a frame whose header words sum above 16 bits, so that carries are folded,
\* and whose checksum is not 0
C16_Witness ==
    /\ FrameBuilt
    /\ call.payload_len = 65507
    /\ call.dest.ip = <<255, 255, 255, 255>>
    /\ u16_at(ret.bytes, 24) # 0
    /\ Sum([k \in 1..10 |-> u16_at(ret.bytes, 14 + 2 * (k - 1))]) > 65535

IsIpAddress(text) ==
    \/ text.sep = "." /\ Len(text.labels) = 4 /\ \A i \in 1..4 : text.labels[i] \in 0..255
    \/ text.sep = ":" /\ Len(text.labels) = 8 /\ \A i \in 1..8 : text.labels[i] \in 0..U16_MAX

Invalid == config.flows = <<>> \/ ~IsIpAddress(config.destination.ip)

\* C19: validate_config returns an error exactly for a configuration with no
\* flows or with a destination ip that is no IP address, and a run whose
\* configuration is invalid ends at startup with the validation error, before
\* any group is processed, any packet generated or any tick completed
C19_ValidationGuardsGeneration ==
    /\ validate_config(config).ok <=> ~Invalid
    /\ error = "validation" => Invalid
    /\ (Invalid /\ pc # "start") =>
          /\ pc = "failed" /\ error = "validation"
          /\ pending = {} /\ results = EmptyMap /\ packets = <<>>
          /\ tick_log = <<>> /\ datagrams = <<>> /\ capture = <<>>

\* a configuration with flows is refused for its destination
C19_Witness ==
    pc = "failed" /\ error = "validation" /\ config.flows # <<>>

(* ---------------------------------------------------------------------- *)
(* The sinks                                                               *)
(* ---------------------------------------------------------------------- *)
\* the first n packets of the tick, each as one datagram for the destination
DatagramsOf(n) == [k \in 1..n |-> [payload |-> packets[k], dest |-> destination]]

\* the output step of a run that transmits
Transmits == pc = "output" /\ pc' # "output" /\ ~args.output

CaptureToV6 == args.output /\ destination.family = "V6" /\ error # "io"

Captures == pc = "output" /\ pc' # "output" /\ args.output

InTick == pc \in {"generate", "output"}

\* C21: a tick that is in progress when the shutdown flag is set is not cut
\* short: it goes on to the sink, which gets all its packets unless a build,
\* a send or a write fails; the flag is looked at at the top of the loop and
\* at every sleep quantum only, and once it is set the sleep ends without
\* another quantum, the loop is left at its top and no tick starts
C21_ShutdownBetweenTicks ==
    /\ [][shutdown => shutdown']_vars
    /\ [][InTick => pc' \in {"generate", "output", "sleep", "failed"}]_vars
    /\ [][(shutdown /\ pc = "output" /\ pc' = "sleep") =>
             /\ tick_log' = Append(tick_log, send_templates)
             /\ IF args.output THEN Len(capture') = Len(capture) + Len(packets)
                ELSE Len(datagrams') = Len(packets)]_vars
    /\ [][(pc # "generate" /\ pc' = "generate") => (pc = "top" /\ ~shutdown)]_vars
    /\ [][(shutdown /\ pc = "top" /\ pc' # pc) => pc' = "closing"]_vars
    /\ [][(shutdown /\ pc = "sleep") => (now' = now /\ pc' \in {"sleep", "top"})]_vars

\* the flag is set and the tick in progress has gone on to the sink
C21_Witness ==
    shutdown /\ pc = "output" /\ packets # <<>> /\ iteration = 2

\* main has returned Ok(()): the exit code is 0
ExitedOk == pc = "done" /\ error = "none"

\* C22: once the shutdown flag is set the loop is eventually left: either the
\* tick in progress fails and its error ends the run, or main returns Ok(())
\* (exit code 0) after the capture writer, if there is one, has been closed;
\* the writer is closed at most once and nothing is written after the close
C22_ShutdownTerminates ==
    /\ shutdown ~> (pc = "failed" \/
                    (ExitedOk /\ closes = IF args.output THEN 1 ELSE 0))
    /\ [](closes <= 1)
    /\ [](pc = "done" => ExitedOk)
    /\ [][closes = 1 => (capture' = capture /\ closes' = 1)]_vars

\* a run that wrote capture records has been shut down and has closed the file
C22_Witness ==
    shutdown /\ ExitedOk /\ closes = 1 /\ capture # <<>>

(* ---------------------------------------------------------------------- *)
(* Errors of the builders                                                  *)
(* ---------------------------------------------------------------------- *)
\* the build of the group fails in the tick in progress
BuildFails(id) ==
    ~process_exporter_group(Groups[id], initial_seq(id), send_templates).ok

\* what the sinks have got and what the completed ticks have left
Emitted == <<datagrams, capture, sent_log, tick_log, iteration>>

\* C23: a tick in which the build of some group fails never reaches the sink:
\* as soon as the failure is collected nothing of the tick is sent or
\* written, the tick ends the run with the generation error, and a run that
\* has failed takes no further step
C23_BuildErrorAbortsTick ==
    /\ [][pc' = "output" => (pc = "output" \/ \A id \in DOMAIN Groups : ~BuildFails(id))]_vars
    /\ [][(pc = "generate" /\ \E id \in DOMAIN results : ~results[id].ok) =>
             /\ pc' \in {"generate", "failed"}
             /\ pc' = "failed" => error' = "generation"
             /\ Emitted' = Emitted /\ packets' = <<>>]_vars
    /\ [][pc = "failed" => (pc' = "failed" /\ Emitted' = Emitted /\ error' = error)]_vars

\* the tick is aborted although another group of it had built its packets
C23_Witness ==
    /\ pc = "failed" /\ error = "generation" /\ datagrams = <<>> /\ capture = <<>>
    /\ \E id \in DOMAIN results : results[id].ok /\ results[id].packets # <<>>

(* ---------------------------------------------------------------------- *)
(* Template definitions of one exporter identity                           *)
(* ---------------------------------------------------------------------- *)
\* the template flowsets of the entries, with the identity of their entry
TemplateDefs(flows) ==
    UNION { { [id |-> extract_exporter_id(flows[i], i - 1), template |-> flows[i].flowsets[j]] :
                j \in { j \in DOMAIN flows[i].flowsets : IsTemplate(flows[i].flowsets[j]) } } :
            i \in { i \in DOMAIN flows : flows[i].version \in {"v9", "ipfix"} } }

\* two template flowsets of one identity have the same id and different fields
TemplateConflict(flows) ==
    \E d, e \in TemplateDefs(flows) :
       /\ d.id = e.id
       /\ d.template.template_id = e.template.template_id
       /\ d.template.fields # e.template.fields

\* C24: a configuration with conflicting template definitions under one
\* exporter identity is rejected at startup: the run does not get past the
\* startup, ends with an error of the startup and emits nothing
C24_ConflictingTemplatesRejected ==
    TemplateConflict(config.flows) =>
       /\ pc \in {"start", "failed"}
       /\ pc = "failed" => error \in {"configuration", "validation", "invalid_destination", "io"}
       /\ datagrams = <<>> /\ capture = <<>>

(* ---------------------------------------------------------------------- *)
(* Two builds of the same entry                                            *)
(* ---------------------------------------------------------------------- *)
\* the header of the entry gives the time stamp the builder would otherwise
\* read from the clock
TimestampsFixed(flow) ==
    /\ flow.header.some
    /\ IF flow.version = "ipfix" THEN flow.header.val.export_time.some
       ELSE flow.header.val.unix_secs.some

\* the call builds one entry twice
BuildsTwice == call.fn = "process_exporter_group" /\ Len(call.flows) = 1

\* C25: two builds of the same entry from the same starting sequence and with
\* the same template decision return the same result (the same messages in
\* the same order, the same time stamps in them and the same next sequence,
\* or the same error) when the header of the entry fixes the time stamps;
\* whatever the header, the two results differ in the time stamps at most
C25_BuildIsDeterministic ==
    BuildsTwice =>
        /\ TimestampsFixed(call.flows[1].flow) => ret.first = ret.second
        /\ ret.first.ok = ret.second.ok
        /\ ret.first.ok =>
              /\ ret.first.next_seq = ret.second.next_seq
              /\ Len(ret.first.packets) = Len(ret.second.packets)
              /\ \A n \in DOMAIN ret.first.packets :
                    ret.first.packets[n].msg = ret.second.packets[n].msg

\* an entry with fixed time stamps was built at two different times, and the
\* build returned messages
C25_Witness ==
    /\ BuildsTwice
    /\ TimestampsFixed(call.flows[1].flow)
    /\ call.clock # call.again
    /\ ret.first.ok /\ ret.first.packets # <<>>

(* ---------------------------------------------------------------------- *)
(* The groups of a tick and the sequence store                             *)
(* ---------------------------------------------------------------------- *)
Stores == <<v5_sequence_numbers, v9_sequence_numbers, ipfix_sequence_numbers>>

\* the packets of an exporter identity in a packet list, in the order of the list
PacketsOfId(pkts, id) ==
    LET idx == Indices([n \in DOMAIN pkts |-> IdOfPacket(pkts[n]) = id])
    IN [k \in DOMAIN idx |-> pkts[idx[k]]]

\* C26: within a tick every exporter identity is processed by exactly one
\* worker (an identity is either still pending or has one result, and a worker
\* takes a pending identity); while the groups run the sequence store does
\* not change, so each result is the function of the group, of the sequence
\* the store held at the start of the tick and of the template decision; the
\* store changes only in the step that merges the completed groups, and in
\* whatever order the groups ran and are merged, the store then holds the
\* next sequence of each identity's result and the packet list holds the
\* identity's packets in the order of that result
C26_GroupsDoNotInterfere ==
    /\ [](pc = "generate" =>
             /\ pending \cap DOMAIN results = {}
             /\ pending \cup DOMAIN results = DOMAIN Groups
             /\ \A id \in DOMAIN results :
                   results[id] = process_exporter_group(Groups[id], initial_seq(id),
                                                        send_templates))
    /\ [][(pc = "generate" /\ pc' = "generate") => Stores' = Stores]_vars
    /\ [][Stores' # Stores =>
             (pc = "generate" /\ pc' = "output" /\ pending = {}
              /\ DOMAIN results = DOMAIN Groups)]_vars
    /\ [][(pc = "generate" /\ pc' = "output") =>
             \A id \in DOMAIN Groups :
                LET r == process_exporter_group(Groups[id], initial_seq(id), send_templates)
                IN /\ r.ok
                   /\ initial_seq(id)' = r.next_seq
                   /\ PacketsOfId(packets', id) = r.packets]_vars

\* two groups that both advance their sequences have been merged
C26_Witness ==
    /\ pc = "output"
    /\ Cardinality(DOMAIN Groups) = 2
    /\ \A id \in DOMAIN Groups : initial_seq(id) > 0
    /\ IdOfPacket(packets[1]) # IdOfPacket(packets[Len(packets)])

(* ---------------------------------------------------------------------- *)
(* The buckets of the grouping                                             *)
(* ---------------------------------------------------------------------- *)
\* the value of an optional header field of an entry, d when the header or
\* the field is absent
HeaderField(flow, field, d) ==
    IF flow.header.some /\ flow.header.val[field].some THEN flow.header.val[field].val ELSE d

\* the buckets that hold the i-th entry of the configuration
BucketsOf(i) == {id \in DOMAIN Groups : \E k \in DOMAIN Groups[id] : Groups[id][k].index = i}

\* C27: the grouping made at the start of a tick partitions the entries:
\* every entry is in exactly one bucket and at one position of it; the bucket is that of its identity (v5:
\* engine_type and engine_id, 0 when absent; v9: source_id, 1 when absent;
\* IPFIX: observation_domain_id, 1 when absent; v7: the index of the entry);
\* the entries of a bucket have one version and stand in input order
C27_GroupingPartitions ==
    (pc = "generate" /\ results = EmptyMap) =>
        /\ \A i \in DOMAIN config.flows :
              LET flow == config.flows[i]
              IN /\ Cardinality(BucketsOf(i)) = 1
                 /\ \A id \in BucketsOf(i) :
                       /\ Cardinality({k \in DOMAIN Groups[id] : Groups[id][k].index = i}) = 1
                       /\ \A k \in DOMAIN Groups[id] :
                             Groups[id][k].index = i => Groups[id][k].flow = flow
                       /\ flow.version = "v5" =>
                             id = ExporterId("V5", HeaderField(flow, "engine_type", 0),
                                             HeaderField(flow, "engine_id", 0))
                       /\ flow.version = "v9" =>
                             id = ExporterId("V9", HeaderField(flow, "source_id", 1), 0)
                       /\ flow.version = "ipfix" =>
                             id = ExporterId("IPFix",
                                             HeaderField(flow, "observation_domain_id", 1), 0)
                       /\ flow.version = "v7" => id = ExporterId("V7", i - 1, 0)
        /\ \A id \in DOMAIN Groups :
              /\ Groups[id] # <<>>
              /\ \A k \in DOMAIN Groups[id] : Groups[id][k].index \in DOMAIN config.flows
              /\ \A j, k \in DOMAIN Groups[id] :
                    /\ Groups[id][j].flow.version = Groups[id][k].flow.version
                    /\ j < k => Groups[id][j].index < Groups[id][k].index

\* the groups of a configuration of two different entries of one identity,
\* one of them without a header, are being processed
C27_Witness ==
    /\ pc = "generate"
    /\ Len(config.flows) = 2
    /\ config.flows[1] # config.flows[2]
    /\ ~config.flows[2].header.some
    /\ Cardinality(DOMAIN Groups) = 1

(* ---------------------------------------------------------------------- *)
(* The messages of a template-based entry                                  *)
(* ---------------------------------------------------------------------- *)
\* the messages a successful build of an entry of the given version returns:
\* the template message, if any, first, with all templates of the entry in
\* configuration order, then one data message per data flowset in
\* configuration order
TemplateThenDataFor(version) ==
    (BuildsTwice /\ call.flows[1].flow.version = version /\ ret.first.ok) =>
        LET flowsets == call.flows[1].flow.flowsets
            tidx == Indices([i \in DOMAIN flowsets |-> IsTemplate(flowsets[i])])
            didx == Indices([i \in DOMAIN flowsets |-> IsData(flowsets[i])])
            t == IF call.send_templates /\ Len(tidx) > 0 THEN 1 ELSE 0
            msgs == [n \in DOMAIN ret.first.packets |-> ret.first.packets[n].msg]
        IN /\ Len(msgs) = t + Len(didx)
           /\ t = 1 =>
                 /\ msgs[1].kind = "template"
                 /\ msgs[1].template_ids = [k \in DOMAIN tidx |-> flowsets[tidx[k]].template_id]
           /\ \A k \in DOMAIN didx :
                 /\ msgs[t + k].kind = "data"
                 /\ msgs[t + k].fs = didx[k]
                 /\ msgs[t + k].template_ids = <<flowsets[didx[k]].template_id>>
                 /\ msgs[t + k].nrec = Len(flowsets[didx[k]].records)

\* C28: a successful build of a v9 or IPFIX entry with T templates and D data
\* flowsets returns (1 if include_templates and T > 0, else 0) + D messages:
\* the template message with the T templates in order, then the data
\* messages in order, also when a data flowset stands before its template
C28_TemplateThenData == TemplateThenDataFor("v9") /\ TemplateThenDataFor("ipfix")

(* ---------------------------------------------------------------------- *)
(* The time stamps of the v9 messages of an exporter                       *)
(* ---------------------------------------------------------------------- *)
\* the group of a v9 exporter identity has been processed
V9GroupBuilt ==
    /\ call.fn = "process_exporter_group"
    /\ call.flows[1].flow.version = "v9"
    /\ ret.first.ok

\* the statement for all messages of the exporter identity: they all carry
\* the same sys_up_time and unix_secs, whatever entry they come from
C29_Original ==
    V9GroupBuilt =>
        \A m, n \in DOMAIN ret.first.packets :
            ret.first.packets[m].times = ret.first.packets[n].times

\* C29: in one tick all v9 messages built from the same flow entry (its
\* template message and its data messages) carry the same sys_up_time and the
\* same unix_secs; messages of different entries of the exporter identity
\* carry those of their own entry
C29_SameTimesWithinEntry ==
    V9GroupBuilt =>
        \A m, n \in DOMAIN ret.first.packets :
            ret.first.packets[m].msg.entry = ret.first.packets[n].msg.entry
                => ret.first.packets[m].times = ret.first.packets[n].times

\* two entries of one source_id were built, the first without time stamps in
\* its header and with a template and a data message, and the messages of
\* the exporter do not all carry the same time stamps
C29_Witness ==
    /\ V9GroupBuilt
    /\ Len(call.flows) = 2
    /\ ~call.flows[1].flow.header.some
    /\ ret.first.packets[1].msg.kind = "template"
    /\ ret.first.packets[2].msg.kind = "data"
    /\ ret.first.packets[2].msg.entry = ret.first.packets[1].msg.entry
    /\ \E n \in DOMAIN ret.first.packets :
          ret.first.packets[n].times # ret.first.packets[1].times

(* ---------------------------------------------------------------------- *)
(* Sequence numbers at the largest u32                                     *)
(* ---------------------------------------------------------------------- *)
\* the group of a v5, v9 or IPFIX exporter identity has been processed
SequencedGroupRun ==
    /\ call.fn = "process_exporter_group"
    /\ call.flows[1].flow.version \in {"v5", "v9", "ipfix"}

\* C30: sequence numbers never wrap: a build that would advance a sequence
\* beyond the largest u32 returns a build error (it does not abort the
\* process); in a build that succeeds the sequence numbers of the messages of
\* an entry never go down from one message to the next, and the sequence
\* handed back for the store is not below the one the group started from nor
\* below the sequence number of any v9 or IPFIX message
C30_SequenceNeverWraps ==
    SequencedGroupRun =>
        /\ ret.first.err # "panic"
        /\ ret.first.ok =>
              /\ \A m, n \in DOMAIN ret.first.packets :
                    (m < n /\ ret.first.packets[m].msg.entry = ret.first.packets[n].msg.entry)
                        => ret.first.packets[m].msg.sequence_number
                              <= ret.first.packets[n].msg.sequence_number
              /\ call.flows[1].flow.version # "ipfix" =>
                    ret.first.next_seq >= call.initial_sequence
              /\ call.flows[1].flow.version # "v5" =>
                    \A n \in DOMAIN ret.first.packets :
                        ret.first.packets[n].msg.sequence_number <= ret.first.next_seq

(* ---------------------------------------------------------------------- *)
(* Field names that are not in the registry                                *)
(* ---------------------------------------------------------------------- *)
\* the field list holds a name the registry of the version does not know
UnknownField(version, fields) ==
    \E j \in DOMAIN fields :
        IF version = "v9" THEN ~v9_field_name_to_id(fields[j].field_type).some
        ELSE ~ipfix_field_name_to_id(fields[j].field_type).some

\* one v9 or IPFIX entry with such a template has been built
UnknownFieldBuilt ==
    /\ BuildsTwice
    /\ call.flows[1].flow.version \in {"v9", "ipfix"}
    /\ \E i \in DOMAIN call.flows[1].flow.flowsets :
          /\ IsTemplate(call.flows[1].flow.flowsets[i])
          /\ UnknownField(call.flows[1].flow.version, call.flows[1].flow.flowsets[i].fields)

\* a data flowset of the entry with at least one record uses a template with
\* such a field (the first template of its template_id)
RecordUsesUnknownField ==
    LET flow == call.flows[1].flow
    IN \E i \in DOMAIN flow.flowsets :
          /\ IsData(flow.flowsets[i])
          /\ flow.flowsets[i].records # <<>>
          /\ \E t \in DOMAIN flow.flowsets :
                /\ IsTemplate(flow.flowsets[t])
                /\ flow.flowsets[t].template_id = flow.flowsets[i].template_id
                /\ \A u \in 1..(t - 1) :
                      ~(IsTemplate(flow.flowsets[u])
                        /\ flow.flowsets[u].template_id = flow.flowsets[i].template_id)
                /\ UnknownField(flow.version, flow.flowsets[t].fields)

CapturedBuffers == [n \in DOMAIN capture |-> capture[n].payload]

\* C32: in a periodic run with capture output the file is created, with its
\* file header, exactly once, at startup and before the first tick; every
\* tick that succeeds adds one record per buffer of the tick, in the order of
\* the buffers, at the end of the file, so that the file holds the buffers of
\* all completed ticks, those of each exporter identity in the order they
\* were produced; no step takes a record away or changes one
C32_CaptureOpenedOnceAppendOnly ==
    /\ [](opens = IF args.output /\ pc \notin {"start", "failed"} THEN 1
                  ELSE IF pc = "failed" THEN opens ELSE 0)
    /\ [](opens <= 1)
    /\ [][opens' # opens =>
             (pc = "start" /\ opens' = 1 /\ capture' = <<>> /\ tick_log = <<>>)]_vars
    /\ [][InTick' => opens' = (IF args.output THEN 1 ELSE 0)]_vars
    /\ [][/\ Len(capture') >= Len(capture)
          /\ SubSeq(capture', 1, Len(capture)) = capture]_vars
    /\ [][(Captures /\ pc' = "sleep") =>
             capture' = capture \o DatagramsOf(Len(packets))]_vars
    /\ []((args.output /\ pc # "failed") =>
             /\ \A n \in DOMAIN capture : IdOfPacket(capture[n].payload) \in DOMAIN sent_log
             /\ \A id \in DOMAIN sent_log :
                   PacketsOfId(CapturedBuffers, id)
                      = [k \in DOMAIN sent_log[id] |-> sent_log[id][k].pkt])

\* two ticks have been written to the capture file, which was created once
C32_Witness ==
    /\ args.output
    /\ opens = 1
    /\ Len(tick_log) = 2
    /\ Len(capture) >= 4
    /\ pc = "sleep"

(* ---------------------------------------------------------------------- *)
(* The socket of the transmitter                                           *)
(* ---------------------------------------------------------------------- *)
\* C33: across the ticks of a periodic run the transmitter binds exactly one
\* socket, to 0.0.0.0:SRC_PORT, and sends the datagrams of every tick from it
C33_OneSocketReused ==
    (~args.output /\ tick_log # <<>>) => (binds = 1 /\ UdpBindPort = SRC_PORT)

(* ---------------------------------------------------------------------- *)
(* Single-shot mode                                                        *)
(* ---------------------------------------------------------------------- *)
\* the packets are those of one build of every exporter group from sequence 0
\* with the templates included
BuiltOnceFromZero ==
    \E order \in Perms(DOMAIN Groups) :
       packets = Concat([k \in DOMAIN order |->
                           process_exporter_group(Groups[order[k]], 0, TRUE).packets])

\* C34: a single-shot run performs one tick: one build with the templates and
\* every sequence from 0, one delivery of it to the capture file when --output
\* is given and else to the network, never to both, and then it is over
C34_SingleShotIsOneTick ==
    /\ Len(tick_log) <= 1
    /\ opens + binds <= 1
    /\ pc = "done" =>
          /\ tick_log = <<TRUE>>
          /\ BuiltOnceFromZero
          /\ IF args.output
             THEN /\ opens = 1 /\ binds = 0 /\ datagrams = <<>>
                  /\ capture = DatagramsOf(Len(packets))
             ELSE /\ binds = 1 /\ opens = 0 /\ capture = <<>>
                  /\ datagrams = DatagramsOf(Len(packets))

C34_Witness ==
    /\ pc = "done" /\ ~args.output
    /\ Len(datagrams) >= 2
    /\ Cardinality(DOMAIN Groups) = 2

(* ---------------------------------------------------------------------- *)
(* Set ids of IPFIX data sets                                              *)
(* ---------------------------------------------------------------------- *)
\* C35: every IPFIX data set that is emitted has as set id the template_id
\* of its data flowset, and that id is at least 256: a data flowset with a
\* template_id below 256 is not emitted as a data set
C35_DataSetIdsFrom256 ==
    (call.fn = "process_exporter_group" /\ ret.first.ok) =>
        \A n \in DOMAIN ret.first.packets :
           LET m == ret.first.packets[n].msg
           IN (m.version = 10 /\ m.kind = "data") =>
                 /\ \E k \in DOMAIN call.flows :
                       /\ call.flows[k].index = m.entry
                       /\ m.template_ids =
                             <<call.flows[k].flow.flowsets[m.fs].template_id>>
                 /\ m.template_ids[1] >= 256

(* ---------------------------------------------------------------------- *)
(* A tick in which a group fails                                           *)
(* ---------------------------------------------------------------------- *)
\* C36: when a group of a tick fails, the three stores are what they were
\* before the tick, for every identity, those whose group succeeded included:
\* no step of the generation of a tick changes a store unless it completes
\* the tick's generation with every group built
C36_FailedTickKeepsStores ==
    [][(pc = "generate" /\ pc' # "output") => Stores' = Stores]_vars

\* a tick has failed after a group of it had succeeded with a sequence that
\* is not the stored one
C36_Witness ==
    /\ pc = "failed" /\ error = "generation"
    /\ \E id \in DOMAIN results :
          results[id].ok /\ results[id].next_seq # initial_seq(id)

(* ---------------------------------------------------------------------- *)
(* v9 entries that define templates and carry no data                      *)
(* ---------------------------------------------------------------------- *)
\* a v9 entry whose flowsets are templates only, all of registered fields
TemplateOnlyV9(flow) ==
    /\ flow.version = "v9"
    /\ flow.flowsets # <<>>
    /\ \A i \in DOMAIN flow.flowsets :
          /\ IsTemplate(flow.flowsets[i])
          /\ \A j \in DOMAIN flow.flowsets[i].fields :
                v9_field_name_to_id(flow.flowsets[i].fields[j].field_type).some

\* the group of the identity has such an entry; it has nothing else
HasTemplateOnly(id) == \E k \in DOMAIN Groups[id] : TemplateOnlyV9(Groups[id][k].flow)
AllTemplateOnly(id) == \A k \in DOMAIN Groups[id] : TemplateOnlyV9(Groups[id][k].flow)

\* what the builder does with such entries in the tick that is being generated:
\* with the templates, one template message per entry and the sequence that
\* was stored; without them, an error
TemplateOnlyBuilds ==
    pc = "generate" =>
       \A id \in DOMAIN results :
          /\ (AllTemplateOnly(id) /\ send_templates) =>
                /\ results[id].ok
                /\ Len(results[id].packets) = Len(Groups[id])
                /\ \A n \in DOMAIN results[id].packets :
                      results[id].packets[n].kind = "template"
                /\ results[id].next_seq = initial_seq(id)
          /\ (HasTemplateOnly(id) /\ ~send_templates) => ~results[id].ok
          /\ (AllTemplateOnly(id) /\ ~send_templates) => results[id].err = "empty"

\* C37 as stated: a v9 entry of templates only builds to one template message,
\* with the sequence unchanged, when the templates are included and to an
\* error when they are not; a periodic run of a configuration with such an
\* entry succeeds on the first tick and aborts on the second, so that it never
\* completes two ticks
C37_Original ==
    /\ TemplateOnlyBuilds
    /\ (\E id \in DOMAIN Groups : HasTemplateOnly(id)) => Len(tick_log) <= 1

\* C37, amended: the builds are as stated; the run aborts on the first tick
\* that leaves the templates out, so that every tick it completes has included
\* them.  That is the second tick only when it begins less than
\* TEMPLATE_REFRESH_INTERVAL after the start of the run
C37_TemplateOnlyAbortsWithoutTemplates ==
    /\ TemplateOnlyBuilds
    /\ (\E id \in DOMAIN Groups : HasTemplateOnly(id)) =>
          /\ \A k \in DOMAIN tick_log : tick_log[k]
          /\ (pc = "generate" /\ ~send_templates /\ pending = {}) =>
                \E id \in DOMAIN results : ~results[id].ok
          /\ (Len(tick_log) >= 2 /\ lag = 0) =>
                interval_secs >= TEMPLATE_REFRESH_INTERVAL

\* a run of templates only has aborted in its second tick
C37_Witness ==
    /\ \E id \in DOMAIN Groups : AllTemplateOnly(id)
    /\ pc = "failed" /\ error = "generation"
    /\ tick_log = <<TRUE>>

(* ---------------------------------------------------------------------- *)
(* The sequence spaces of the versions                                     *)
(* ---------------------------------------------------------------------- *)
\* the version of the entries an identity of a kind stands for
VersionOfKind(kind) ==
    CASE kind = "V5" -> "v5" [] kind = "V7" -> "v7" [] kind = "V9" -> "v9"
      [] kind = "IPFix" -> "ipfix"

\* the store of a kind, and the key of an identity in it
StoreOfKind(kind) ==
    CASE kind = "V5" -> v5_sequence_numbers
      [] kind = "V9" -> v9_sequence_numbers
      [] kind = "IPFix" -> ipfix_sequence_numbers
KeyInStore(id) == IF id.kind = "V5" THEN <<id.a, id.b>> ELSE id.a

\* what the store of its own kind holds for an identity
OwnSequence(id) ==
    IF KeyInStore(id) \in DOMAIN StoreOfKind(id.kind)
    THEN StoreOfKind(id.kind)[KeyInStore(id)] ELSE 0

\* every group holds entries of the one version of its identity
GroupsOfOneVersion ==
    \A id \in DOMAIN Groups : \A k \in DOMAIN Groups[id] :
       Groups[id][k].flow.version = VersionOfKind(id.kind)

\* the merge of a tick gives the store of every kind the keys of the
\* identities of that kind, each with the sequence its own group reached from
\* the sequence its own store held, and leaves every other key as it was
MergeKeepsKindsApart ==
    (pc = "generate" /\ pc' = "output") =>
       \A kind \in {"V5", "V9", "IPFix"} :
          LET ids == {id \in DOMAIN Groups : id.kind = kind}
          IN /\ DOMAIN StoreOfKind(kind)' =
                   DOMAIN StoreOfKind(kind) \cup {KeyInStore(id) : id \in ids}
             /\ \A id \in ids :
                   StoreOfKind(kind)'[KeyInStore(id)] =
                      process_exporter_group(Groups[id], OwnSequence(id),
                                             send_templates).next_seq
             /\ \A x \in DOMAIN StoreOfKind(kind) \ {KeyInStore(id) : id \in ids} :
                   StoreOfKind(kind)'[x] = StoreOfKind(kind)[x]

\* C38: the sequence spaces of the versions are disjoint: a v9 source_id k, an
\* IPFIX observation_domain_id k and a v5 exporter are distinct identities in
\* separate groups, and exporting for one never changes the sequence stored
\* for another
C38_VersionsHaveOwnSequences ==
    []GroupsOfOneVersion /\ [][MergeKeepsKindsApart]_vars

\* a v9 and an IPFIX identity with the same number have been exported in two
\* ticks and hold different sequences
C38_Witness ==
    /\ Len(tick_log) >= 2
    /\ \E k \in DOMAIN v9_sequence_numbers \cap DOMAIN ipfix_sequence_numbers :
          /\ v9_sequence_numbers[k] # ipfix_sequence_numbers[k]
          /\ v9_sequence_numbers[k] > 0

(* ---------------------------------------------------------------------- *)
(* The sequence_number of a v9 header                                      *)
(* ---------------------------------------------------------------------- *)
\* the entries of a group with the sequence_number of their headers removed
WithoutHeaderSequence(flows) ==
    [k \in DOMAIN flows |->
        [flows[k] EXCEPT !.flow.header.val.sequence_number = NoneOpt]]

\* the sequence_number the header of an entry asks for, 0 when it asks for none
HeaderSequence(flow) ==
    IF flow.header.some /\ flow.header.val.sequence_number.some
    THEN flow.header.val.sequence_number.val ELSE 0

\* C39: the sequence of a v9 header is the override when there is one, else
\* the sequence_number of the entry's header, else 0; main always passes the
\* stored sequence (0 on first encounter) as the override, so that the
\* sequence_number of a header has no influence on any packet: every v9 group
\* is built as it would be without it, and the first message sent for a v9
\* identity carries sequence 0
C39_V9HeaderSequenceIsIgnored ==
    /\ \A i \in DOMAIN config.flows :
          config.flows[i].version = "v9" =>
             /\ \A s \in {0, 5} :
                   v9_get_header_values(config.flows[i], SomeOpt(s)).sequence_number = s
             /\ v9_get_header_values(config.flows[i], NoneOpt).sequence_number
                   = HeaderSequence(config.flows[i])
    /\ pc = "generate" =>
          \A id \in DOMAIN results :
             id.kind = "V9" =>
                results[id] = process_exporter_group(WithoutHeaderSequence(Groups[id]),
                                                     initial_seq(id), send_templates)
    /\ \A id \in DOMAIN sent_log :
          (id.kind = "V9" /\ sent_log[id] # <<>>) =>
             sent_log[id][1].pkt.sequence_number = 0

\* messages of a v9 entry whose header asks for a sequence_number other than
\* 0 have been sent
C39_Witness ==
    \E id \in DOMAIN sent_log :
       /\ id.kind = "V9"
       /\ sent_log[id] # <<>>
       /\ HeaderSequence(config.flows[sent_log[id][1].pkt.entry]) # 0

============================================================================
